---- MODULE Spec2Model ----
(***************************************************************************)
(* A model of dotbins' archive extraction engine (src/dotbins/extract.py). *)
(*                                                                         *)
(* Strings are sequences of one-character strings, so that endswith,       *)
(* startswith, slicing and pathlib's splitting are computed as the code    *)
(* computes them.  Byte contents are small naturals (0 is the empty byte   *)
(* string b"").  A byte buffer handed to extract_file is described by what *)
(* it decodes to: its compression layer and the container or raw bytes     *)
(* below it.                                                               *)
(***************************************************************************)
EXTENDS Integers, Sequences, FiniteSets, TLC

VARIABLES
    args,       \* the arguments of the extract_file call under study
    result,     \* what extract_file returned or raised
    fs,         \* the filesystem: resolved path -> node
    raised,     \* the outcome of each ExtractedFile.extract call so far
    fs_once,    \* the filesystem as the first extract call left it
    pc,         \* position of the caller: start, resolved, once, twice
    tools,            \* config.tools: tool name -> tool_config dict
    download_tasks,   \* the DownloadTask list of an update run
    workers,          \* the download worker of each task: state, chunks written
    downloaded_tasks, \* (task, success) in the order the downloads ended
    journal,          \* what the run did: release lookups, processed tasks
    cursor            \* index of the loop the update run is in

update_vars == <<tools, download_tasks, workers, downloaded_tasks, journal, cursor>>

vars == <<args, result, fs, raised, fs_once, pc, update_vars>>

\* no update run is going on
NoUpdate ==
    /\ tools = <<>>
    /\ download_tasks = <<>>
    /\ workers = <<>>
    /\ downloaded_tasks = <<>>
    /\ journal = <<>>
    /\ cursor = 0

----------------------------------------------------------------------------
(* Bounds of the model.                                                    *)

MaxMembers == 3

----------------------------------------------------------------------------
(* Strings.                                                                *)

StartsWith(s, p) == Len(p) <= Len(s) /\ SubSeq(s, 1, Len(p)) = p

EndsWith(s, x) == Len(x) <= Len(s) /\ SubSeq(s, Len(s) - Len(x) + 1, Len(s)) = x

EndsWithAny(s, xs) == \E x \in xs : EndsWith(s, x)

\* s[n:] of Python
DropFirst(s, n) == IF n >= Len(s) THEN <<>> ELSE SubSeq(s, n + 1, Len(s))

RemovePrefix(s, p) == IF StartsWith(s, p) THEN DropFirst(s, Len(p)) ELSE s

RemoveSuffix(s, x) == IF EndsWith(s, x) /\ Len(x) > 0
                      THEN SubSeq(s, 1, Len(s) - Len(x)) ELSE s

Contains(s, c) == \E i \in 1..Len(s) : s[i] = c

Slash == <<"/">>

\* str.split("/") keeping empty pieces: a sequence of strings
RECURSIVE SplitSlash(_, _, _)
SplitSlash(s, i, cur) ==
    IF i > Len(s) THEN <<cur>>
    ELSE IF s[i] = "/" THEN <<cur>> \o SplitSlash(s, i + 1, <<>>)
    ELSE SplitSlash(s, i + 1, Append(cur, s[i]))

Dot == <<".">>

DotDot == <<".", ".">>

\* PurePosixPath(s).parts without the root: empty and "." pieces are dropped,
\* ".." pieces are kept
PathParts(s) ==
    LET raw == SplitSlash(s, 1, <<>>)
        keep == { i \in 1..Len(raw) : raw[i] # <<>> /\ raw[i] # Dot }
        RECURSIVE Pick(_)
        Pick(i) == IF i > Len(raw) THEN <<>>
                   ELSE IF i \in keep THEN <<raw[i]>> \o Pick(i + 1)
                   ELSE Pick(i + 1)
    IN Pick(1)

IsAbsolute(s) == Len(s) > 0 /\ s[1] = "/"

\* Path(s).name
BaseName(s) ==
    LET parts == PathParts(s)
    IN IF parts = <<>> THEN <<>> ELSE parts[Len(parts)]

\* fnmatch.fnmatch on POSIX for patterns built of literals, * and ?
RECURSIVE FnMatch(_, _)
FnMatch(s, p) ==
    IF p = <<>> THEN s = <<>>
    ELSE IF Head(p) = "*"
         THEN FnMatch(s, Tail(p)) \/ (s # <<>> /\ FnMatch(Tail(s), p))
    ELSE IF Head(p) = "?"
         THEN s # <<>> /\ FnMatch(Tail(s), Tail(p))
    ELSE s # <<>> /\ Head(s) = Head(p) /\ FnMatch(Tail(s), Tail(p))

----------------------------------------------------------------------------
(* Permission bits.                                                        *)

RECURSIVE BitAnd(_, _)
BitAnd(a, b) ==
    IF a = 0 \/ b = 0 THEN 0
    ELSE (a % 2) * (b % 2) + 2 * BitAnd(a \div 2, b \div 2)

RECURSIVE BitOr(_, _)
BitOr(a, b) ==
    IF a = 0 THEN b
    ELSE IF b = 0 THEN a
    ELSE (IF a % 2 = 1 \/ b % 2 = 1 THEN 1 ELSE 0) + 2 * BitOr(a \div 2, b \div 2)

ExecBits == \o111

----------------------------------------------------------------------------
(* is_exec, rename and the choosers.                                       *)

SufDeb == <<".", "d", "e", "b">>
SufOne == <<".", "1">>
SufTxt == <<".", "t", "x", "t">>
SufExe == <<".", "e", "x", "e">>
SufAppimage == <<".", "a", "p", "p", "i", "m", "a", "g", "e">>

is_definitely_not_exec(filename) == EndsWithAny(filename, {SufDeb, SufOne, SufTxt})

\* an is_exec that trusts the permission bits before the denylist
is_exec_ModeFirst(filename, mode) ==
    IF BitAnd(mode, ExecBits) # 0 THEN TRUE
    ELSE IF is_definitely_not_exec(filename) THEN FALSE
    ELSE EndsWithAny(filename, {SufExe, SufAppimage})
         \/ ~Contains(BaseName(filename), ".")

is_exec(filename, mode) ==
    IF BitAnd(mode, ExecBits) # 0 /\ ~is_definitely_not_exec(filename) THEN TRUE
    ELSE IF is_definitely_not_exec(filename) THEN FALSE
    ELSE EndsWithAny(filename, {SufExe, SufAppimage})
         \/ ~Contains(BaseName(filename), ".")

\* a rename that forgets to strip the .appimage suffix
rename_KeepAppimage(filename, nameguess) ==
    IF is_definitely_not_exec(filename) THEN filename
    ELSE IF EndsWithAny(filename, {SufAppimage, SufExe}) THEN filename
    ELSE nameguess

rename(filename, nameguess) ==
    IF is_definitely_not_exec(filename) THEN filename
    ELSE IF EndsWith(filename, SufAppimage)
         THEN SubSeq(filename, 1, Len(filename) - 9)
    ELSE IF EndsWith(filename, SufExe) THEN filename
    ELSE nameguess

\* a binary chooser whose direct match looks at the name alone
binary_chooser_NameOnly(name, is_dir, mode, tool) ==
    IF is_dir THEN <<FALSE, FALSE>>
    ELSE LET basename == BaseName(name)
             is_match == basename \in {tool, tool \o SufExe, tool \o SufAppimage}
             is_possible == ~is_dir /\ is_exec(name, mode)
         IN <<is_match, is_possible>>

\* every chooser returns <<direct, possible>>
binary_chooser(name, is_dir, mode, tool) ==
    IF is_dir THEN <<FALSE, FALSE>>
    ELSE LET basename == BaseName(name)
             is_match == basename \in {tool, tool \o SufExe, tool \o SufAppimage}
             is_possible == ~is_dir /\ is_exec(name, mode)
         IN <<is_match /\ is_possible, is_possible>>

literal_file_chooser(name, is_dir, mode, filename) ==
    <<FALSE, BaseName(name) = BaseName(filename) /\ EndsWith(name, filename)>>

\* a glob chooser that keeps the trailing "/" of the pattern
glob_chooser_NoStrip(name, is_dir, mode, pattern) ==
    IF pattern \in {<<"*">>, <<"/">>} THEN <<TRUE, TRUE>>
    ELSE LET n == RemoveSuffix(name, Slash)
         IN <<FALSE, FnMatch(BaseName(n), pattern) \/ FnMatch(n, pattern)>>

glob_chooser(name, is_dir, mode, pattern) ==
    IF pattern \in {<<"*">>, <<"/">>} THEN <<TRUE, TRUE>>
    ELSE LET n == RemoveSuffix(name, Slash)
             p == RemoveSuffix(pattern, Slash)
         IN <<FALSE, FnMatch(BaseName(n), p) \/ FnMatch(n, p)>>

chooser_fn(chooser_type, chooser_arg, name, is_dir, mode) ==
    CASE chooser_type = "binary" -> binary_chooser(name, is_dir, mode, chooser_arg)
      [] chooser_type = "literal" -> literal_file_chooser(name, is_dir, mode, chooser_arg)
      [] chooser_type = "glob" -> glob_chooser(name, is_dir, mode, chooser_arg)

----------------------------------------------------------------------------
(* Results of extract_file.                                                *)

Msg(text, n, detail) == [text |-> text, n |-> n, detail |-> detail]

Returned(ef) == [status |-> "returned", file |-> ef]

Raise(type, message, candidates) ==
    [status |-> "raised", type |-> type, message |-> message, candidates |-> candidates]

\* ExtractionError(message, candidates=None): self.candidates = candidates or []
ExtractionError(message, candidates) == Raise("ExtractionError", message, candidates)

----------------------------------------------------------------------------
(* Enumeration of a container (first pass of _extract_tar / _extract_zip). *)
(* A tar member is [name, type, mode, data, linkname] with type one of     *)
(* file, dir, sym, lnk; a zip entry is [filename, external_attr, data,     *)
(* encrypted]; ZipFile.read of an encrypted entry raises RuntimeError.     *)

TarFileInfo(member) ==
    [name |-> member.name,
     is_dir |-> member.type = "dir",
     mode |-> member.mode,
     linkname |-> member.linkname,
     is_symlink |-> member.type = "sym",
     is_hardlink |-> member.type = "lnk"]

TarFileInfos(members) == [i \in 1..Len(members) |-> TarFileInfo(members[i])]

\* the dict all_file_data: the last member of a name wins; links and
\* directories store nothing
TarAllFileData(members) ==
    LET stored == { i \in 1..Len(members) : members[i].type = "file" }
        names == { members[i].name : i \in stored }
        last(n) == CHOOSE i \in stored :
                      /\ members[i].name = n
                      /\ \A j \in stored : members[j].name = n => j <= i
    IN [n \in names |-> members[last(n)].data]

\* external_attr is an unsigned 32-bit number, kept as its two 16-bit halves
ExternalAttr(hi, lo) == [hi |-> hi, lo |-> lo]

ZipMode(external_attr) ==
    IF external_attr.hi > 0 \/ external_attr.lo > 0
    THEN BitAnd(external_attr.hi, \o777) ELSE \o644

ZipFileInfo(info) ==
    [name |-> info.filename,
     is_dir |-> EndsWith(info.filename, Slash),
     mode |-> ZipMode(info.external_attr),
     linkname |-> <<>>,
     is_symlink |-> FALSE,
     is_hardlink |-> FALSE]

ZipFileInfos(infos) == [i \in 1..Len(infos) |-> ZipFileInfo(infos[i])]

ZipAllFileData(infos) ==
    LET stored == { i \in 1..Len(infos) : ~EndsWith(infos[i].filename, Slash) }
        names == { infos[i].filename : i \in stored }
        last(n) == CHOOSE i \in stored :
                      /\ infos[i].filename = n
                      /\ \A j \in stored : infos[j].filename = n => j <= i
    IN [n \in names |-> infos[last(n)].data]

----------------------------------------------------------------------------
(* The candidate resolver.                                                 *)

\* all_file_data.get(name, b"")
DictGet(all_file_data, name) ==
    IF name \in DOMAIN all_file_data THEN all_file_data[name] ELSE 0

\* the closure _create_tar_extract_func / _create_zip_extract_func returns
create_extract_func(container, file_info, all_file_data, archive_data) ==
    IF ~file_info.is_dir
    THEN [fn |-> "_extract_regular_file",
          file_data |-> DictGet(all_file_data, file_info.name),
          mode |-> file_info.mode,
          name |-> file_info.name]
    ELSE [fn |-> IF container = "tar" THEN "_extract_tar_directory"
                 ELSE "_extract_zip_directory",
          prefix_len |-> Len(file_info.name),
          dir_name |-> file_info.name,
          data |-> archive_data]

\* a loop body that keeps a member whatever the chooser says
ScanStep_KeepAll(st, file_info, container, chooser_type, chooser_arg, all_file_data, archive_data) ==
    [st EXCEPT !.candidates =
        Append(@, [name |-> file_info.name,
                   archive_name |-> file_info.name,
                   mode |-> file_info.mode,
                   extract |-> create_extract_func(container, file_info,
                                                   all_file_data, archive_data),
                   is_dir |-> file_info.is_dir])]

\* a loop body that claims no prefix: a chosen directory is not recorded
ScanStep_NoClaim(st, file_info, container, chooser_type, chooser_arg, all_file_data, archive_data) ==
    LET dp == chooser_fn(chooser_type, chooser_arg,
                         file_info.name, file_info.is_dir, file_info.mode)
        name0 == IF file_info.is_dir /\ ~EndsWith(file_info.name, Slash)
                 THEN file_info.name \o Slash ELSE file_info.name
        ef == [name |-> rename(name0, name0),
               archive_name |-> file_info.name,
               mode |-> file_info.mode,
               extract |-> create_extract_func(container, file_info,
                                               all_file_data, archive_data),
               is_dir |-> file_info.is_dir]
    IN IF dp[1] \/ dp[2]
       THEN [st EXCEPT !.candidates = Append(@, ef),
                       !.direct_candidates = IF dp[1] THEN Append(@, ef) ELSE @]
       ELSE st

\* one iteration of the loop over file_infos; st = [candidates,
\* direct_candidates, dirs, skipped]
ScanStep(st, file_info, container, chooser_type, chooser_arg, all_file_data, archive_data) ==
    IF \E d \in 1..Len(st.dirs) : StartsWith(file_info.name, st.dirs[d])
    THEN [st EXCEPT !.skipped = Append(@, file_info.name)]
    ELSE LET dp == chooser_fn(chooser_type, chooser_arg,
                              file_info.name, file_info.is_dir, file_info.mode)
             direct == dp[1]
             possible == dp[2]
             name0 == IF file_info.is_dir /\ ~EndsWith(file_info.name, Slash)
                      THEN file_info.name \o Slash ELSE file_info.name
             ef == [name |-> rename(name0, name0),
                    archive_name |-> file_info.name,
                    mode |-> file_info.mode,
                    extract |-> create_extract_func(container, file_info,
                                                    all_file_data, archive_data),
                    is_dir |-> file_info.is_dir]
         IN IF direct \/ possible
            THEN [candidates |-> Append(st.candidates, ef),
                  direct_candidates |-> IF direct THEN Append(st.direct_candidates, ef)
                                        ELSE st.direct_candidates,
                  dirs |-> IF file_info.is_dir THEN Append(st.dirs, file_info.name)
                           ELSE st.dirs,
                  skipped |-> st.skipped]
            ELSE st

RECURSIVE ScanCandidates(_, _, _, _, _, _, _, _)
ScanCandidates(file_infos, i, st, container, chooser_type, chooser_arg, all_file_data, archive_data) ==
    IF i > Len(file_infos) THEN st
    ELSE ScanCandidates(file_infos, i + 1,
                        ScanStep(st, file_infos[i], container, chooser_type,
                                 chooser_arg, all_file_data, archive_data),
                        container, chooser_type, chooser_arg, all_file_data, archive_data)

Scanned(file_infos, container, chooser_type, chooser_arg, all_file_data, archive_data) ==
    ScanCandidates(file_infos, 1,
                   [candidates |-> <<>>, direct_candidates |-> <<>>,
                    dirs |-> <<>>, skipped |-> <<>>],
                   container, chooser_type, chooser_arg, all_file_data, archive_data)

\* a selection policy that returns a direct match whatever multiple is
SelectCandidate_DirectFirst(candidates, direct_candidates, chooser_type, chooser_arg, multiple) ==
    IF direct_candidates # <<>> THEN Returned(direct_candidates[1])
    ELSE IF Len(candidates) = 0
         THEN ExtractionError(Msg("Target not found in archive", 0, ""), <<>>)
    ELSE IF Len(candidates) > 1 /\ ~multiple
         THEN ExtractionError(Msg("candidates found", Len(candidates), ""), candidates)
    ELSE Returned(candidates[1])

\* a selection policy that, with multiple, takes the first candidate
\* without looking for a direct match
SelectCandidate_FirstCandidate(candidates, direct_candidates, chooser_type, chooser_arg, multiple) ==
    IF Len(candidates) = 0
    THEN ExtractionError(Msg("Target not found in archive", 0, ""), <<>>)
    ELSE IF Len(candidates) > 1 /\ ~multiple
         THEN ExtractionError(Msg("candidates found", Len(candidates), ""), candidates)
    ELSE Returned(candidates[1])

\* the selection policy that ends _process_archive_candidates
SelectCandidate(candidates, direct_candidates, chooser_type, chooser_arg, multiple) ==
    IF direct_candidates # <<>> /\ multiple THEN Returned(direct_candidates[1])
    ELSE IF Len(candidates) = 1 THEN Returned(candidates[1])
    ELSE IF Len(candidates) = 0
         THEN ExtractionError(Msg("Target not found in archive", 0, ""), <<>>)
    ELSE IF chooser_type = "glob" /\ chooser_arg = <<"*">> /\ candidates # <<>> /\ ~multiple
         THEN ExtractionError(Msg("candidates found", Len(candidates), ""), candidates)
    ELSE IF Len(candidates) > 1 /\ ~multiple
         THEN ExtractionError(Msg("candidates found", Len(candidates), ""), candidates)
    ELSE Returned(candidates[1])

process_archive_candidates(file_infos, container, chooser_type, chooser_arg, all_file_data, archive_data, multiple) ==
    LET st == Scanned(file_infos, container, chooser_type, chooser_arg,
                      all_file_data, archive_data)
    IN SelectCandidate(st.candidates, st.direct_candidates,
                       chooser_type, chooser_arg, multiple)

----------------------------------------------------------------------------
(* Byte buffers and decompression.  A buffer is                            *)
(* [comp, fmt, members, content]: comp is the compression its bytes carry  *)
(* (none, gzip, bzip2, xz), fmt what lies below it (tar, zip or raw bytes).*)

Buffer(comp, fmt, members, content) ==
    [comp |-> comp, fmt |-> fmt, members |-> members, content |-> content]

\* _decompress_data: [ok, data]; not ok stands for the ExtractionError
\* "Failed to decompress with <decompressor>: ..."
decompress_data(data, decompressor) ==
    IF decompressor = "none" THEN [ok |-> TRUE, data |-> data]
    ELSE IF data.comp = decompressor
         THEN [ok |-> TRUE, data |-> [data EXCEPT !.comp = "none"]]
    ELSE [ok |-> FALSE, data |-> data]

DecompressError(decompressor) ==
    ExtractionError(Msg("Failed to decompress with", 0, decompressor), <<>>)

\* an _extract_tar without its except clause: tarfile's error leaves as it is
extract_tar_NoExcept(data, chooser_type, chooser_arg, multiple) ==
    IF data.comp # "none" \/ data.fmt # "tar"
    THEN Raise("ReadError", Msg("truncated header", 0, ""), <<>>)
    ELSE process_archive_candidates(TarFileInfos(data.members), "tar",
                                    chooser_type, chooser_arg,
                                    TarAllFileData(data.members), data, multiple)

extract_tar(data, chooser_type, chooser_arg, multiple) ==
    IF data.comp # "none" \/ data.fmt # "tar"
    THEN ExtractionError(Msg("Failed to extract tar", 0, ""), <<>>)
    ELSE process_archive_candidates(TarFileInfos(data.members), "tar",
                                    chooser_type, chooser_arg,
                                    TarAllFileData(data.members), data, multiple)

extract_zip(data, chooser_type, chooser_arg, multiple) ==
    IF data.comp # "none" \/ data.fmt # "zip"
    THEN ExtractionError(Msg("Failed to extract zip", 0, ""), <<>>)
    ELSE IF \E i \in 1..Len(data.members) :
               /\ ~EndsWith(data.members[i].filename, Slash)
               /\ data.members[i].encrypted
    THEN Raise("RuntimeError", Msg("password required for extraction", 0, ""), <<>>)
    ELSE process_archive_candidates(ZipFileInfos(data.members), "zip",
                                    chooser_type, chooser_arg,
                                    ZipAllFileData(data.members), data, multiple)

\* an extract_single_file that never adds the execute bits
extract_single_file_NoExec(data, filename, rename_to, decompressor) ==
    LET name == rename(filename, rename_to)
        mode == \o666
    IN Returned([name |-> name,
                 archive_name |-> filename,
                 mode |-> mode,
                 extract |-> [fn |-> "_extract_single_file", data |-> data,
                              decompressor |-> decompressor, mode |-> mode],
                 is_dir |-> FALSE])

extract_single_file(data, filename, rename_to, decompressor) ==
    LET name == rename(filename, rename_to)
        mode == BitOr(\o666, IF is_exec(name, \o666) THEN ExecBits ELSE 0)
    IN Returned([name |-> name,
                 archive_name |-> filename,
                 mode |-> mode,
                 extract |-> [fn |-> "_extract_single_file", data |-> data,
                              decompressor |-> decompressor, mode |-> mode],
                 is_dir |-> FALSE])

Ext_tar_gz == <<".", "t", "a", "r", ".", "g", "z">>
Ext_tgz == <<".", "t", "g", "z">>
Ext_tar_bz2 == <<".", "t", "a", "r", ".", "b", "z", "2">>
Ext_tbz == <<".", "t", "b", "z">>
Ext_tar_xz == <<".", "t", "a", "r", ".", "x", "z">>
Ext_txz == <<".", "t", "x", "z">>
Ext_tar == <<".", "t", "a", "r">>
Ext_zip == <<".", "z", "i", "p">>
Ext_gz == <<".", "g", "z">>
Ext_bz2 == <<".", "b", "z", "2">>
Ext_xz == <<".", "x", "z">>

DecompressThenTar(data, decompressor, chooser_type, chooser_arg, multiple) ==
    LET d == decompress_data(data, decompressor)
    IN IF d.ok THEN extract_tar(d.data, chooser_type, chooser_arg, multiple)
       ELSE DecompressError(decompressor)

\* a dispatch that tests the short suffixes .gz, .bz2, .xz before the tar ones
ExtractDispatch_ShortFirst(filename, data, tool, chooser_type, chooser_arg, multiple) ==
    IF EndsWith(filename, Ext_gz)
    THEN extract_single_file(data, filename, tool, "gzip")
    ELSE IF EndsWith(filename, Ext_bz2)
    THEN extract_single_file(data, filename, tool, "bzip2")
    ELSE IF EndsWith(filename, Ext_xz)
    THEN extract_single_file(data, filename, tool, "xz")
    ELSE IF EndsWithAny(filename, {Ext_tar_gz, Ext_tgz})
    THEN DecompressThenTar(data, "gzip", chooser_type, chooser_arg, multiple)
    ELSE IF EndsWithAny(filename, {Ext_tar_bz2, Ext_tbz})
    THEN DecompressThenTar(data, "bzip2", chooser_type, chooser_arg, multiple)
    ELSE IF EndsWithAny(filename, {Ext_tar_xz, Ext_txz})
    THEN DecompressThenTar(data, "xz", chooser_type, chooser_arg, multiple)
    ELSE IF EndsWith(filename, Ext_tar)
    THEN extract_tar(data, chooser_type, chooser_arg, multiple)
    ELSE IF EndsWith(filename, Ext_zip)
    THEN extract_zip(data, chooser_type, chooser_arg, multiple)
    ELSE extract_single_file(data, filename, tool, "none")

\* a dispatch that looks for the gzip magic bytes before the suffix
ExtractDispatch_GzipMagic(filename, data, tool, chooser_type, chooser_arg, multiple) ==
    IF data.comp = "gzip" /\ data.fmt = "tar"
    THEN DecompressThenTar(data, "gzip", chooser_type, chooser_arg, multiple)
    ELSE IF data.comp = "gzip"
    THEN extract_single_file(data, filename, tool, "gzip")
    ELSE IF EndsWithAny(filename, {Ext_tar_gz, Ext_tgz})
    THEN DecompressThenTar(data, "gzip", chooser_type, chooser_arg, multiple)
    ELSE IF EndsWithAny(filename, {Ext_tar_bz2, Ext_tbz})
    THEN DecompressThenTar(data, "bzip2", chooser_type, chooser_arg, multiple)
    ELSE IF EndsWithAny(filename, {Ext_tar_xz, Ext_txz})
    THEN DecompressThenTar(data, "xz", chooser_type, chooser_arg, multiple)
    ELSE IF EndsWith(filename, Ext_tar)
    THEN extract_tar(data, chooser_type, chooser_arg, multiple)
    ELSE IF EndsWith(filename, Ext_zip)
    THEN extract_zip(data, chooser_type, chooser_arg, multiple)
    ELSE IF EndsWith(filename, Ext_gz)
    THEN extract_single_file(data, filename, tool, "gzip")
    ELSE IF EndsWith(filename, Ext_bz2)
    THEN extract_single_file(data, filename, tool, "bzip2")
    ELSE IF EndsWith(filename, Ext_xz)
    THEN extract_single_file(data, filename, tool, "xz")
    ELSE extract_single_file(data, filename, tool, "none")

\* the body of the try block of extract_file
ExtractDispatch(filename, data, tool, chooser_type, chooser_arg, multiple) ==
    IF EndsWithAny(filename, {Ext_tar_gz, Ext_tgz})
    THEN DecompressThenTar(data, "gzip", chooser_type, chooser_arg, multiple)
    ELSE IF EndsWithAny(filename, {Ext_tar_bz2, Ext_tbz})
    THEN DecompressThenTar(data, "bzip2", chooser_type, chooser_arg, multiple)
    ELSE IF EndsWithAny(filename, {Ext_tar_xz, Ext_txz})
    THEN DecompressThenTar(data, "xz", chooser_type, chooser_arg, multiple)
    ELSE IF EndsWith(filename, Ext_tar)
    THEN extract_tar(data, chooser_type, chooser_arg, multiple)
    ELSE IF EndsWith(filename, Ext_zip)
    THEN extract_zip(data, chooser_type, chooser_arg, multiple)
    ELSE IF EndsWith(filename, Ext_gz)
    THEN extract_single_file(data, filename, tool, "gzip")
    ELSE IF EndsWith(filename, Ext_bz2)
    THEN extract_single_file(data, filename, tool, "bzip2")
    ELSE IF EndsWith(filename, Ext_xz)
    THEN extract_single_file(data, filename, tool, "xz")
    ELSE extract_single_file(data, filename, tool, "none")

\* an except clause that lets every exception through as it is
ConvertException_None(r, filename) == r

\* the except clause of extract_file
ConvertException(r, filename) ==
    IF r.status = "raised" /\ r.type # "ExtractionError"
    THEN ExtractionError(Msg("Failed to extract", 0,
                             [filename |-> filename, error |-> r.message.text]), <<>>)
    ELSE r

ChooserTypes == {"binary", "literal", "glob"}

extract_file(filename, data, tool, chooser_type, chooser_arg, multiple) ==
    LET tool1 == IF tool = <<>> THEN filename ELSE tool
        chooser_arg1 == IF chooser_arg = <<>> THEN tool1 ELSE chooser_arg
    IN IF chooser_type \notin ChooserTypes
       THEN Raise("ValueError", Msg("Unknown chooser type", 0, chooser_type), <<>>)
       ELSE ConvertException(
                ExtractDispatch(filename, data, tool1, chooser_type, chooser_arg1, multiple),
                filename)

----------------------------------------------------------------------------
(* The filesystem.  A path is the sequence of its components below the     *)
(* root; fs maps the resolved paths that exist to nodes                    *)
(* [kind, data, mode, target].  The process is an ordinary user: it cannot *)
(* open for writing a file whose mode lacks the owner write bit.           *)

DirNode == [kind |-> "dir", data |-> 0, mode |-> \o755, target |-> <<>>]

FileNode(data, mode) == [kind |-> "file", data |-> data, mode |-> mode, target |-> <<>>]

SymlinkNode(target) == [kind |-> "symlink", data |-> 0, mode |-> \o777, target |-> target]

Put(f, p, node) == [q \in DOMAIN f \cup {p} |-> IF q = p THEN node ELSE f[q]]

Remove(f, p) == [q \in DOMAIN f \ {p} |-> f[q]]

Ok(f) == [fs |-> f, exc |-> "none"]

Fail(f, exc) == [fs |-> f, exc |-> exc]

\* what the kernel makes of the components: ".." steps to the parent
RECURSIVE Resolve(_)
Resolve(parts) ==
    IF parts = <<>> THEN <<>>
    ELSE LET front == Resolve(SubSeq(parts, 1, Len(parts) - 1))
             last == parts[Len(parts)]
         IN IF last = DotDot
            THEN (IF front = <<>> THEN <<>> ELSE SubSeq(front, 1, Len(front) - 1))
            ELSE Append(front, last)

\* Path.parent
Parent(parts) == IF parts = <<>> THEN <<>> ELSE SubSeq(parts, 1, Len(parts) - 1)

\* to_path / rel_path
JoinPath(to_path, rel_path) ==
    IF IsAbsolute(rel_path) THEN PathParts(rel_path) ELSE to_path \o PathParts(rel_path)

\* str(path) of an absolute path
RECURSIVE PathStr(_)
PathStr(parts) ==
    IF parts = <<>> THEN <<>> ELSE Slash \o Head(parts) \o PathStr(Tail(parts))

\* where a symbolic link at resolved path p points
LinkDest(p, target) ==
    IF IsAbsolute(target) THEN Resolve(PathParts(target))
    ELSE Resolve(Parent(p) \o PathParts(target))

\* Path.exists(): follows a symbolic link
Exists(f, parts) ==
    LET p == Resolve(parts)
    IN /\ p \in DOMAIN f
       /\ f[p].kind = "symlink" => LinkDest(p, f[p].target) \in DOMAIN f

\* Path.mkdir(parents=True, exist_ok=True)
RECURSIVE MkdirParents(_, _, _)
MkdirParents(f, parts, k) ==
    IF k > Len(parts) THEN Ok(f)
    ELSE LET p == Resolve(SubSeq(parts, 1, k))
         IN IF p \in DOMAIN f
            THEN (IF f[p].kind = "dir" THEN MkdirParents(f, parts, k + 1)
                  ELSE Fail(f, IF k = Len(parts) THEN "FileExistsError"
                               ELSE "NotADirectoryError"))
            ELSE MkdirParents(Put(f, p, DirNode), parts, k + 1)

Mkdir(f, parts) == MkdirParents(f, parts, 1)

OwnerWrite == \o200

\* Path.write_bytes then Path.chmod on the resolved path p
WriteNode(f, p, data, mode) ==
    IF p \notin DOMAIN f THEN Ok(Put(f, p, FileNode(data, mode)))
    ELSE IF f[p].kind = "dir" THEN Fail(f, "IsADirectoryError")
    ELSE IF BitAnd(f[p].mode, OwnerWrite) = 0 THEN Fail(f, "PermissionError")
    ELSE Ok(Put(f, p, FileNode(data, mode)))

\* _write_file
write_file(f, data, path, mode) ==
    LET made == Mkdir(f, Parent(path))
        p == Resolve(path)
        q == IF p \in DOMAIN made.fs /\ made.fs[p].kind = "symlink"
             THEN LinkDest(p, made.fs[p].target) ELSE p
    IN IF made.exc # "none" THEN made
       ELSE WriteNode(made.fs, q, data, mode)

\* _extract_regular_file
extract_regular_file(f, to_path, file_data, mode, name) ==
    LET mode_to_use == IF is_exec(name, mode) THEN BitOr(mode, ExecBits) ELSE mode
    IN write_file(f, file_data, to_path, mode_to_use)

\* the bytes of a buffer as a file content: raw bytes that carry no
\* compression are their content; a compression layer or a container gives
\* other bytes
CompCode(comp) ==
    CASE comp = "none" -> 0 [] comp = "gzip" -> 1 [] comp = "bzip2" -> 2 [] comp = "xz" -> 3

FmtCode(fmt) == CASE fmt = "raw" -> 0 [] fmt = "tar" -> 1 [] fmt = "zip" -> 2

BytesOf(data) == data.content + 10 * FmtCode(data.fmt) + 100 * CompCode(data.comp)

\* an _extract_single_file that opens the destination before it decompresses
extract_single_file_to_OpenFirst(f, to_path, data, decompressor, mode) ==
    LET d == decompress_data(data, decompressor)
        opened == write_file(f, 0, to_path, mode)
    IN IF opened.exc # "none" THEN opened
       ELSE IF ~d.ok THEN Fail(opened.fs, "ExtractionError")
       ELSE write_file(opened.fs, BytesOf(d.data), to_path, mode)

\* _extract_single_file
extract_single_file_to(f, to_path, data, decompressor, mode) ==
    LET d == decompress_data(data, decompressor)
    IN IF ~d.ok THEN Fail(f, "ExtractionError")
       ELSE write_file(f, BytesOf(d.data), to_path, mode)

\* the symlink / hardlink branch of _extract_tar_directory
ExtractTarLink(f, target_path, sub_member) ==
    LET p == Resolve(target_path)
        unlinked == IF Exists(f, target_path)
                    THEN (IF f[p].kind = "dir" THEN Fail(f, "IsADirectoryError")
                          ELSE Ok(Remove(f, p)))
                    ELSE Ok(f)
        made == IF unlinked.exc # "none" THEN unlinked
                ELSE Mkdir(unlinked.fs, Parent(target_path))
    IN IF made.exc # "none" THEN made
       ELSE IF sub_member.type = "sym"
            THEN (IF p \in DOMAIN made.fs THEN Fail(made.fs, "FileExistsError")
                  ELSE Ok(Put(made.fs, p, SymlinkNode(sub_member.linkname))))
       ELSE Ok(made.fs)   \* link_to under contextlib.suppress(Exception)

\* one iteration of the loop of _extract_tar_directory
TarDirStep(f, to_path, prefix_len, dir_name, sub_member) ==
    IF ~StartsWith(sub_member.name, dir_name) THEN Ok(f)
    ELSE LET rel_path == RemovePrefix(DropFirst(sub_member.name, prefix_len), Slash)
             target_path == JoinPath(to_path, rel_path)
         IN IF sub_member.type = "dir" THEN Mkdir(f, target_path)
            ELSE IF sub_member.type \in {"sym", "lnk"}
            THEN ExtractTarLink(f, target_path, sub_member)
            ELSE LET sub_mode == sub_member.mode
                     mode_to_use == IF is_exec(PathStr(target_path), sub_mode)
                                    THEN BitOr(sub_mode, ExecBits) ELSE sub_mode
                 IN write_file(f, sub_member.data, target_path, mode_to_use)

\* one iteration of the loop of _extract_zip_directory
ZipDirStep(f, to_path, prefix_len, dir_name, sub_info) ==
    IF ~StartsWith(sub_info.filename, dir_name) THEN Ok(f)
    ELSE LET rel_path == DropFirst(sub_info.filename, prefix_len)
             target_path == JoinPath(to_path, rel_path)
         IN IF EndsWith(sub_info.filename, Slash) THEN Mkdir(f, target_path)
            ELSE LET sub_mode == ZipMode(sub_info.external_attr)
                     mode_to_use == IF is_exec(PathStr(target_path), sub_mode)
                                    THEN BitOr(sub_mode, ExecBits) ELSE sub_mode
                 IN write_file(f, sub_info.data, target_path, mode_to_use)

RECURSIVE DirLoop(_, _, _, _, _, _, _)
DirLoop(r, container, to_path, prefix_len, dir_name, members, i) ==
    IF r.exc # "none" \/ i > Len(members) THEN r
    ELSE DirLoop(IF container = "tar"
                 THEN TarDirStep(r.fs, to_path, prefix_len, dir_name, members[i])
                 ELSE ZipDirStep(r.fs, to_path, prefix_len, dir_name, members[i]),
                 container, to_path, prefix_len, dir_name, members, i + 1)

\* _extract_tar_directory / _extract_zip_directory
extract_directory(f, container, to_path, prefix_len, dir_name, data) ==
    DirLoop(Mkdir(f, to_path), container, to_path, prefix_len, dir_name, data.members, 1)

\* ExtractedFile.extract(to_path): [fs, exc]
RunExtract(f, ef, to_path) ==
    LET c == ef.extract
    IN CASE c.fn = "_extract_regular_file" ->
              extract_regular_file(f, to_path, c.file_data, c.mode, c.name)
         [] c.fn = "_extract_tar_directory" ->
              extract_directory(f, "tar", to_path, c.prefix_len, c.dir_name, c.data)
         [] c.fn = "_extract_zip_directory" ->
              extract_directory(f, "zip", to_path, c.prefix_len, c.dir_name, c.data)
         [] c.fn = "_extract_single_file" ->
              extract_single_file_to(f, to_path, c.data, c.decompressor, c.mode)

----------------------------------------------------------------------------
(* The inputs.  Names are short but keep the shapes the code looks at:     *)
(* the tool is "tl"; "ot" is another extensionless file; "n.txt" carries   *)
(* execute bits; "d" is a directory with the members "d/tl", "d/ln" (a     *)
(* symbolic link to a missing file) and "d/../e"; "dx" lies beside "d".    *)

N_tl == <<"t", "l">>
N_ot == <<"o", "t">>
N_txt == <<"n", ".", "t", "x", "t">>
N_d == <<"d">>
N_d_tl == <<"d", "/", "t", "l">>
N_dx == <<"d", "x">>
N_esc == <<"d", "/", ".", ".", "/", "e">>
N_ln == <<"d", "/", "l", "n">>
N_app == N_tl \o SufAppimage
N_zz == <<"z", "z">>
N_dos == <<"m", ".", "t", "x", "t">>

TarMember(name, type, mode, data, linkname) ==
    [name |-> name, type |-> type, mode |-> mode, data |-> data, linkname |-> linkname]

TarUniverse ==
    { TarMember(N_tl, "file", \o755, 1, <<>>),
      TarMember(N_ot, "file", \o644, 2, <<>>),
      TarMember(N_txt, "file", \o755, 1, <<>>),
      TarMember(N_d, "dir", \o755, 0, <<>>),
      TarMember(N_d_tl, "file", \o644, 2, <<>>),
      TarMember(N_dx, "file", \o644, 1, <<>>),
      TarMember(N_esc, "file", \o644, 2, <<>>),
      TarMember(N_ln, "sym", \o777, 0, N_zz),
      TarMember(N_app, "file", \o644, 1, <<>>) }

\* the zip entry a zip writer stores for the same member: directory names
\* end in "/", the mode sits in the upper 16 bits of external_attr
ZipEntryOf(m) ==
    [filename |-> IF m.type = "dir" THEN m.name \o Slash ELSE m.name,
     external_attr |-> ExternalAttr(m.mode, 0),
     data |-> m.data,
     encrypted |-> FALSE]

\* an entry as an MS-DOS zip writer stores it: no Unix mode, the archive bit
DosEntry ==
    [filename |-> N_dos, external_attr |-> ExternalAttr(0, 32), data |-> 1,
     encrypted |-> FALSE]

ZipUniverse ==
    { ZipEntryOf(m) : m \in { u \in TarUniverse : u.type \in {"file", "dir"} } }
    \cup {DosEntry}

\* the listings of at most MaxMembers distinct members
Listings(U) ==
    { s \in UNION { [1..n -> U] : n \in 0..MaxMembers } :
        \A i, j \in DOMAIN s : i # j => s[i] # s[j] }

F_tar == <<"a">> \o Ext_tar
F_zip == <<"a">> \o Ext_zip

Call(filename, data, tool, chooser_type, chooser_arg, multiple) ==
    [filename |-> filename, data |-> data, tool |-> tool,
     chooser_type |-> chooser_type, chooser_arg |-> chooser_arg, multiple |-> multiple]

\* <<tool, chooser_type, chooser_arg>>
Selections ==
    { <<N_tl, "binary", <<>> >>,
      <<<<>>, "glob", <<"*">> >>,
      <<<<>>, "glob", N_d>>,
      <<<<>>, "glob", <<"d", "*">> >>,
      <<N_tl, "literal", N_txt>> }

\* calls that exercise the choice of format and the failures of extract_file
SampleTar == <<TarMember(N_tl, "file", \o755, 1, <<>>), TarMember(N_txt, "file", \o755, 1, <<>>)>>

SampleZip == <<ZipEntryOf(SampleTar[1]), ZipEntryOf(SampleTar[2])>>

FormatBuffers ==
    { Buffer(c, "tar", SampleTar, 0) : c \in {"none", "gzip", "bzip2", "xz"} }
    \cup { Buffer("none", "zip", SampleZip, 0),
           Buffer("none", "zip", <<[SampleZip[1] EXCEPT !.encrypted = TRUE]>>, 0) }
    \cup { Buffer(c, "raw", <<>>, 1) : c \in {"none", "gzip", "bzip2", "xz"} }

Filenames ==
    { <<"a">> \o e : e \in {Ext_tar_gz, Ext_tgz, Ext_tar_bz2, Ext_tbz, Ext_tar_xz,
                            Ext_txz, Ext_tar, Ext_zip} }
    \cup { N_tl \o e : e \in {Ext_gz, Ext_bz2, Ext_xz, <<>>, SufExe, SufAppimage} }
    \cup { N_txt, <<"t", "l", "-", "1", ".", "2">> }

FormatCalls ==
    { Call(fn, b, t, ct, <<>>, m) :
        fn \in Filenames, b \in FormatBuffers, t \in {N_tl, <<>>},
        ct \in {"binary", "glob", "invalid"}, m \in BOOLEAN }

\* the destination handed to ExtractedFile.extract, and the filesystem before
W == <<"w">>

ToPath == <<W, <<"o">> >>

InitialFs == [p \in {<<>>, <<W>>} |-> DirNode]

----------------------------------------------------------------------------
(* The caller: extract_file, then ExtractedFile.extract, then once more.   *)

Init ==
    /\ \/ \E c \in {"tar", "zip"}, sel \in Selections, m \in BOOLEAN :
             \E ms \in Listings(IF c = "tar" THEN TarUniverse ELSE ZipUniverse) :
                args = Call(IF c = "tar" THEN F_tar ELSE F_zip,
                            Buffer("none", c, ms, 0), sel[1], sel[2], sel[3], m)
       \/ args \in FormatCalls
    /\ result = [status |-> "none"]
    /\ fs = InitialFs
    /\ raised = <<>>
    /\ fs_once = InitialFs
    /\ pc = "start"
    /\ NoUpdate

CallExtractFile ==
    /\ pc = "start"
    /\ result' = extract_file(args.filename, args.data, args.tool,
                              args.chooser_type, args.chooser_arg, args.multiple)
    /\ pc' = "resolved"
    /\ UNCHANGED <<args, fs, raised, fs_once, update_vars>>

Extract ==
    /\ pc = "resolved"
    /\ result.status = "returned"
    /\ LET r == RunExtract(fs, result.file, ToPath)
       IN /\ fs' = r.fs
          /\ fs_once' = r.fs
          /\ raised' = Append(raised, r.exc)
    /\ pc' = "once"
    /\ UNCHANGED <<args, result, update_vars>>

ExtractAgain ==
    /\ pc = "once"
    /\ LET r == RunExtract(fs, result.file, ToPath)
       IN /\ fs' = r.fs
          /\ raised' = Append(raised, r.exc)
    /\ pc' = "twice"
    /\ UNCHANGED <<args, result, fs_once, update_vars>>

Next == CallExtractFile \/ Extract \/ ExtractAgain

Spec == Init /\ [][Next]_vars

----------------------------------------------------------------------------
(* The pure functions of the engine, each applied to inputs drawn from     *)
(* bounded sets: every name of at most MaxNameLen characters over a small  *)
(* alphabet, and names with the suffixes the code looks for.               *)

MaxNameLen == 3

Alphabet == {"a", ".", "/", "1"}

ShortNames == UNION { [1..n -> Alphabet] : n \in 0..MaxNameLen }

N_deb == <<"p", ".", "d", "e", "b">>
N_d_x_tl == <<"d", ".", "x", "/", "t", "l">>
N_a_tl == <<"a", "/", "t", "l">>
N_ba_tl == <<"b", "a", "/", "t", "l">>
N_dir == <<"d", "/">>

LongNames ==
    { N_tl, N_tl \o SufExe, N_tl \o SufAppimage, N_txt, N_deb, N_d_tl, N_d_x_tl,
      N_a_tl, N_ba_tl, N_dir, N_tl \o SufTxt \o SufExe, N_tl \o SufExe \o SufTxt,
      <<"t", "l", "/">>, N_d_tl \o SufAppimage }

Names == ShortNames \cup LongNames

Modes == {0, \o1, \o10, \o100, \o644, \o666, \o755, \o4644}

Tools == {N_tl, <<"a">>, <<"a", ".", "1">>, <<"a", ".", "a">>}

Patterns ==
    { <<"*">>, <<"/">>, <<"a">>, <<"a", "/">>, <<"a", "*">>, <<"*", "1">>, <<"?">>,
      <<"*", "/", "*">>, <<"t", "*">>, N_dir, <<"*", "/">>, <<>> }

Targets == { N_tl, N_a_tl, <<"a">>, <<"a", "/", "a">>, <<"/", "a">>, <<".", "1">>, <<"1">> }

\* external_attr of a zip entry: Unix permissions shifted into the upper 16
\* bits, the file type above them, MS-DOS attribute bits below
ExternalAttrs ==
    { ExternalAttr(0, 0), ExternalAttr(\o755, 0), ExternalAttr(\o644, 0),
      ExternalAttr(\o100755, 0), ExternalAttr(\o40755, 16), ExternalAttr(0, 32),
      ExternalAttr(0, 16), ExternalAttr(0, 1), ExternalAttr(\o600, 32),
      ExternalAttr(\o100000, 0) }

\* download.extract_archive: the format it opens an archive with, from the
\* first bytes of the file and the suffix of its path
extract_archive_format(archive_path, data) ==
    LET is_gzip == data.comp = "gzip"
    IN IF is_gzip \/ EndsWithAny(archive_path, {Ext_tar_gz, Ext_tgz}) THEN "r:gz"
       ELSE IF EndsWithAny(archive_path, {Ext_tar_bz2, <<".", "t", "b", "z", "2">>})
            THEN "r:bz2"
       ELSE IF EndsWith(archive_path, Ext_zip) THEN "zip"
       ELSE "ValueError"

\* the filesystems a single-file extract starts from: the destination's
\* parent missing, present, and the destination already a file (writable
\* and read-only)
SingleFileFilesystems ==
    { [p \in {<<>>} |-> DirNode],
      InitialFs,
      Put(InitialFs, ToPath, FileNode(9, \o600)),
      Put(InitialFs, ToPath, FileNode(9, \o400)) }

Decompressors == {"none", "gzip", "bzip2", "xz"}

FnInit ==
    /\ \/ \E name \in Names, mode \in Modes :
             args = [fn |-> "is_exec", name |-> name, mode |-> mode]
       \/ \E name \in Names, nameguess \in Tools :
             args = [fn |-> "rename", name |-> name, nameguess |-> nameguess]
       \/ \E name \in Names, is_dir \in BOOLEAN, mode \in Modes, tool \in Tools :
             args = [fn |-> "binary_chooser", name |-> name, is_dir |-> is_dir,
                     mode |-> mode, tool |-> tool]
       \/ \E name \in Names, is_dir \in BOOLEAN, filename \in Targets :
             args = [fn |-> "literal_file_chooser", name |-> name, is_dir |-> is_dir,
                     mode |-> \o644, filename |-> filename]
       \/ \E name \in Names, is_dir \in BOOLEAN, pattern \in Patterns :
             args = [fn |-> "glob_chooser", name |-> name, is_dir |-> is_dir,
                     mode |-> \o644, pattern |-> pattern]
       \/ \E external_attr \in ExternalAttrs :
             args = [fn |-> "zip_mode", external_attr |-> external_attr]
       \/ \E archive_path \in Filenames, data \in FormatBuffers :
             args = [fn |-> "extract_archive", archive_path |-> archive_path,
                     data |-> data]
       \/ \E c \in FormatCalls : args = [fn |-> "extract_file"] @@ c
       \/ \E c \in Decompressors, decompressor \in Decompressors, mode \in {\o666, \o777} :
             args = [fn |-> "extract_single_file", to_path |-> ToPath,
                     data |-> Buffer(c, "raw", <<>>, 1),
                     decompressor |-> decompressor, mode |-> mode]
    /\ result = [status |-> "none"]
    /\ IF args.fn = "extract_single_file" THEN fs \in SingleFileFilesystems
       ELSE fs = InitialFs
    /\ raised = <<>>
    /\ fs_once = fs
    /\ pc = "start"
    /\ NoUpdate

Applied(value) ==
    /\ pc = "start"
    /\ result' = [status |-> "value", value |-> value]
    /\ pc' = "applied"
    /\ UNCHANGED <<args, fs, raised, fs_once, update_vars>>

Apply_is_exec == args.fn = "is_exec" /\ Applied(is_exec(args.name, args.mode))

Apply_rename == args.fn = "rename" /\ Applied(rename(args.name, args.nameguess))

Apply_binary_chooser ==
    /\ args.fn = "binary_chooser"
    /\ Applied(binary_chooser(args.name, args.is_dir, args.mode, args.tool))

Apply_literal_file_chooser ==
    /\ args.fn = "literal_file_chooser"
    /\ Applied(literal_file_chooser(args.name, args.is_dir, args.mode, args.filename))

Apply_glob_chooser ==
    /\ args.fn = "glob_chooser"
    /\ Applied(glob_chooser(args.name, args.is_dir, args.mode, args.pattern))

Apply_zip_mode == args.fn = "zip_mode" /\ Applied(ZipMode(args.external_attr))

Apply_extract_archive ==
    /\ args.fn = "extract_archive"
    /\ Applied(extract_archive_format(args.archive_path, args.data))

Apply_extract_file ==
    /\ args.fn = "extract_file"
    /\ Applied(extract_file(args.filename, args.data, args.tool,
                            args.chooser_type, args.chooser_arg, args.multiple))

\* ExtractedFile.extract of a single-file result: the closure built at
\* extract_single_file runs _extract_single_file on the filesystem
Apply_extract_single_file ==
    /\ args.fn = "extract_single_file"
    /\ pc = "start"
    /\ LET r == extract_single_file_to(fs, args.to_path, args.data,
                                       args.decompressor, args.mode)
       IN /\ fs' = r.fs
          /\ raised' = <<r.exc>>
          /\ result' = [status |-> "value", value |-> r.exc]
    /\ pc' = "applied"
    /\ UNCHANGED <<args, fs_once, update_vars>>

FnNext ==
    \/ Apply_is_exec
    \/ Apply_rename
    \/ Apply_binary_chooser
    \/ Apply_literal_file_chooser
    \/ Apply_glob_chooser
    \/ Apply_zip_mode
    \/ Apply_extract_archive
    \/ Apply_extract_file
    \/ Apply_extract_single_file

SpecFn == FnInit /\ [][FnNext]_vars

----------------------------------------------------------------------------
(* An update run (src/dotbins/cli.py, src/dotbins/download.py):            *)
(* update_tools prepares one download task per (tool, platform,            *)
(* architecture), downloads the tasks in a pool of worker threads, then    *)
(* processes the downloads one after another.                              *)
(*                                                                         *)
(* Names (asset names, versions, path components) are sequences of tokens; *)
(* a path is a sequence of components; a URL is the sequence of its        *)
(* "/"-separated segments.  The content of a file is the sequence of its   *)
(* chunks, a downloaded chunk being labelled with the URL it came from.    *)
(* A tool_config is the dict config.tools[tool]: a function whose domain   *)
(* grows when the code stores a key in it.                                 *)

MaxChunks == 2

\* d[k] = v on a dict
DictSet(d, k, v) == [x \in DOMAIN d \cup {k} |-> IF x = k THEN v ELSE d[x]]

\* str.lstrip(c)
RECURSIVE LStrip(_, _)
LStrip(s, c) == IF s # <<>> /\ Head(s) = c THEN LStrip(Tail(s), c) ELSE s

\* str.format(version=, platform=, arch=) on an asset pattern
RECURSIVE Format(_, _, _, _)
Format(pattern, version, platform, arch) ==
    IF pattern = <<>> THEN <<>>
    ELSE LET h == Head(pattern)
             sub == IF h = "{version}" THEN version
                    ELSE IF h = "{platform}" THEN <<platform>>
                    ELSE IF h = "{arch}" THEN <<arch>>
                    ELSE <<h>>
         IN sub \o Format(Tail(pattern), version, platform, arch)

\* re.search of a literal pattern: it occurs somewhere in the name
Search(pattern, name) ==
    \E k \in 0..(Len(name) - Len(pattern)) :
        SubSeq(name, k + 1, k + Len(pattern)) = pattern

\* find_asset: the first asset whose name the pattern matches, <<>> for None
find_asset(assets, pattern) ==
    LET hits == { i \in 1..Len(assets) : Search(pattern, assets[i].name) }
    IN IF hits = {} THEN <<>>
       ELSE <<assets[CHOOSE i \in hits : \A j \in hits : i <= j]>>

\* replace_variables_in_path on one path component
RECURSIVE ReplaceVariables(_, _)
ReplaceVariables(s, tool_config) ==
    IF s = <<>> THEN <<>>
    ELSE LET h == Head(s)
             sub == IF h = "{version}" /\ "version" \in DOMAIN tool_config
                    THEN tool_config["version"]
                    ELSE IF h = "{arch}" /\ "arch" \in DOMAIN tool_config
                    THEN <<tool_config["arch"]>>
                    ELSE <<h>>
         IN sub \o ReplaceVariables(Tail(s), tool_config)

replace_variables_in_path(path, tool_config) ==
    [i \in 1..Len(path) |-> ReplaceVariables(path[i], tool_config)]

\* config.tools_dir and tempfile.gettempdir()
ToolsDir == << <<"tools">> >>

TmpDir == << <<"tmp">> >>

\* a destination directory that leaves the architecture out
destination_dir_NoArch(platform, arch) == ToolsDir \o << <<platform>>, <<"bin">> >>

\* config.tools_dir / platform / arch / "bin"
destination_dir(platform, arch) == ToolsDir \o << <<platform>>, <<arch>>, <<"bin">> >>

\* tool_config.get("binary_name", tool_name), a str made a list
binary_names_of(tool_config, tool_name) ==
    IF "binary_name" \in DOMAIN tool_config THEN <<tool_config["binary_name"]>>
    ELSE <<tool_name>>

\* the all_exist loop of prepare_download_task
all_exist(f, dir, binary_names) ==
    \A i \in 1..Len(binary_names) : Exists(f, Append(dir, <<binary_names[i]>>))

\* get_asset_pattern: <<pattern>>, or <<>> for None
get_asset_pattern(tool_config, platform, arch) ==
    IF "asset_patterns" \notin DOMAIN tool_config THEN <<>>
    ELSE LET patterns == tool_config["asset_patterns"]
         IN IF patterns.type = "str" THEN <<patterns.value>>
            ELSE IF platform \notin DOMAIN patterns.value THEN <<>>
            ELSE LET platform_patterns == patterns.value[platform]
                 IN IF platform_patterns.type = "str" THEN <<platform_patterns.value>>
                    ELSE IF arch \notin DOMAIN platform_patterns.value THEN <<>>
                    ELSE <<platform_patterns.value[arch]>>

\* map_platform_and_arch: the mapped arch (no platform_map is configured)
tool_arch_of(arch, tool_config) ==
    IF "arch_map" \in DOMAIN tool_config /\ arch \in DOMAIN tool_config["arch_map"]
    THEN tool_config["arch_map"][arch] ELSE arch

\* find_matching_asset
find_matching_asset(tool_config, release, version, platform, arch, tool_platform, tool_arch) ==
    LET asset_pattern == get_asset_pattern(tool_config, platform, arch)
    IN IF asset_pattern = <<>> THEN <<>>
       ELSE find_asset(release.assets,
                       Format(asset_pattern[1], version, tool_platform, tool_arch))

\* the releases GitHub serves.  Both projects publish an asset named
\* bin-1-x86_64; othertool also publishes othertool-amd64.
ReleaseUrl(repo, name) ==
    << <<"https:">>, <<>>, <<"github.com">>, <<repo>>, <<"releases">>, <<"v", "1">>, name >>

Asset(repo, name) == [name |-> name, browser_download_url |-> ReleaseUrl(repo, name)]

A_x86 == <<"bin", "-", "1", "-", "x86_64">>

A_arm == <<"bin", "-", "1", "-", "arm64">>

A_other == <<"othertool", "-", "amd64">>

Releases ==
    [mytool |-> [tag_name |-> <<"v", "1">>,
                 assets |-> <<Asset("mytool", A_arm), Asset("mytool", A_x86)>>],
     othertool |-> [tag_name |-> <<"v", "1">>,
                    assets |-> <<Asset("othertool", A_other), Asset("othertool", A_x86)>>]]

\* get_latest_release
get_latest_release(repo) == Releases[repo]

\* the files the archive behind a URL holds: mytool's archives hold the
\* binary in a directory named after the architecture they are built for
ArchiveFiles(url) ==
    IF url = ReleaseUrl("mytool", A_x86) THEN { << <<"x86_64">>, <<"mybinary">> >> }
    ELSE IF url = ReleaseUrl("mytool", A_arm) THEN { << <<"arm64">>, <<"mybinary">> >> }
    ELSE {}

\* the configuration: mytool is extracted from an archive, its binary_path
\* names the architecture; othertool's asset is the binary itself and is
\* published for amd64 only
MyTool ==
    [repo |-> "mytool",
     binary_name |-> "mybinary",
     extract_binary |-> TRUE,
     binary_path |-> << <<"{arch}">>, <<"mybinary">> >>,
     asset_patterns |-> [type |-> "str", value |-> <<"bin", "-", "{version}", "-", "{arch}">>],
     arch_map |-> [amd64 |-> "x86_64"]]

OtherTool(binary_name, pattern) ==
    [repo |-> "othertool",
     binary_name |-> binary_name,
     asset_patterns |->
        [type |-> "dict",
         value |-> [linux |-> [type |-> "dict", value |-> [amd64 |-> pattern]]]]]

OtherPatterns == { <<"othertool", "-", "{arch}">>, <<"bin", "-", "{version}", "-", "x86_64">> }

\* config.platforms and the order of config.tools
Platforms == [linux |-> <<"amd64", "arm64">>]

ToolOrder == <<"mytool", "othertool">>

Architectures == { Platforms["linux"][k] : k \in 1..Len(Platforms["linux"]) }

\* the (tool, platform, arch) triples in the order the loops of
\* _prepare_download_tasks visit them, for --platform linux
UpdateTargets ==
    LET archs == Platforms["linux"]
    IN [k \in 1..(Len(ToolOrder) * Len(archs)) |->
          <<ToolOrder[((k - 1) \div Len(archs)) + 1], "linux",
            archs[((k - 1) % Len(archs)) + 1]>>]

\* the content of a binary installed by an earlier run
OldBinary == << << <<"old">> >> >>

\* a filesystem in which the binaries named by the set installed exist
RECURSIVE Install(_, _)
Install(f, installed) ==
    IF installed = {} THEN f
    ELSE LET p == CHOOSE q \in installed : TRUE
         IN Install(Put(Mkdir(f, Parent(p)).fs, p, FileNode(OldBinary, \o755)),
                    installed \ {p})

BaseFs == Mkdir(Mkdir([p \in {<<>>} |-> DirNode], TmpDir).fs, ToolsDir).fs

BinaryPath(platform, arch, binary_name) ==
    Append(destination_dir(platform, arch), <<binary_name>>)

\* prepare_download_task: the task (<<>> for None), the tool dicts as the
\* call leaves them, and whether the release was looked up.  The field
\* tool_config of a task is a reference to config.tools[tool_name]: the
\* task holds the key, the dict stays in tls.
prepare_download_task(tool_name, platform, arch, tls, f) ==
    LET tool_config == tls[tool_name]
        dir == destination_dir(platform, arch)
        binary_names == binary_names_of(tool_config, tool_name)
    IN IF all_exist(f, dir, binary_names)
       THEN [task |-> <<>>, tools |-> tls, lookup |-> FALSE]
       ELSE LET release == get_latest_release(tool_config["repo"])
                version == LStrip(release.tag_name, "v")
                tool_arch == tool_arch_of(arch, tool_config)
                stored == DictSet(DictSet(tool_config, "version", version),
                                  "arch", tool_arch)
                asset == find_matching_asset(stored, release, version, platform,
                                             arch, platform, tool_arch)
                url == asset[1].browser_download_url
            IN [task |-> IF asset = <<>> THEN <<>>
                         ELSE <<[tool_name |-> tool_name,
                                 platform |-> platform,
                                 arch |-> arch,
                                 asset_url |-> url,
                                 asset_name |-> asset[1].name,
                                 tool_config |-> tool_name,
                                 destination_dir |-> dir,
                                 temp_path |-> Append(TmpDir, url[Len(url)])]>>,
                tools |-> DictSet(tls, tool_name, stored),
                lookup |-> TRUE]

\* open(destination, "wb"): the file is created or truncated
OpenWb(f, path) ==
    Put(f, path, FileNode(<<>>, IF path \in DOMAIN f THEN f[path].mode ELSE \o644))

\* f.write(chunk) at the writer's own offset k: a gap left by another
\* writer's truncation reads as a hole
WriteChunk(f, path, k, label) ==
    LET old == IF path \in DOMAIN f THEN f[path].data ELSE <<>>
        n == IF Len(old) > k THEN Len(old) ELSE k
    IN Put(f, path,
           FileNode([j \in 1..n |-> IF j = k THEN label
                                    ELSE IF j <= Len(old) THEN old[j] ELSE <<>>],
                    IF path \in DOMAIN f THEN f[path].mode ELSE \o644))

\* the whole asset behind url, as a file content
Whole(url) == [j \in 1..MaxChunks |-> url]

\* process_downloaded_task: the filesystem it leaves, its return value,
\* the binary path it looked for and the destination files it wrote
process_downloaded_task(task, success, tls, f) ==
    IF ~success
    THEN [fs |-> f, ok |-> FALSE, substituted |-> <<>>, wrote |-> {}]
    ELSE LET tool_config == tls[task.tool_config]
             made == Mkdir(f, task.destination_dir).fs
             present == task.temp_path \in DOMAIN made
             data == made[task.temp_path].data
             binary_names == binary_names_of(tool_config, task.tool_name)
             dest == Append(task.destination_dir, <<binary_names[1]>>)
             unlinked(g) == IF task.temp_path \in DOMAIN g
                            THEN Remove(g, task.temp_path) ELSE g
         IN IF "extract_binary" \in DOMAIN tool_config /\ tool_config["extract_binary"]
            THEN LET path == replace_variables_in_path(tool_config["binary_path"],
                                                       tool_config)
                     readable == present /\ data # <<>> /\ data = Whole(data[1])
                     found == readable /\ path \in ArchiveFiles(data[1])
                 IN [fs |-> unlinked(IF found
                                     THEN Put(made, dest, FileNode(<<data[1], path>>, \o755))
                                     ELSE made),
                     ok |-> found,
                     substituted |-> IF readable THEN path ELSE <<>>,
                     wrote |-> IF found THEN {dest} ELSE {}]
            ELSE [fs |-> unlinked(IF present
                                  THEN Put(made, dest, FileNode(data, \o755))
                                  ELSE made),
                  ok |-> present,
                  substituted |-> <<>>,
                  wrote |-> IF present THEN {dest} ELSE {}]

\* make_binaries_executable
make_binaries_executable(f) ==
    [p \in DOMAIN f |->
        IF /\ f[p].kind = "file"
           /\ \E a \in Architectures : Parent(p) = destination_dir("linux", a)
        THEN [f[p] EXCEPT !.mode = BitOr(@, \o755)] ELSE f[p]]

UpdateInit ==
    /\ \E force \in BOOLEAN :
          args = [command |-> "update", force |-> force, tools |-> <<>>,
                  platform |-> "linux", architecture |-> ""]
    /\ \E binary_name \in {"otherbin", "mybinary"}, pattern \in OtherPatterns :
          tools = [mytool |-> MyTool, othertool |-> OtherTool(binary_name, pattern)]
    /\ \E installed \in SUBSET { BinaryPath("linux", a, "mybinary") :
                                   a \in Architectures } :
          fs = Install(BaseFs, installed)
    /\ fs_once = fs
    /\ result = [status |-> "none"]
    /\ raised = <<>>
    /\ download_tasks = <<>>
    /\ workers = <<>>
    /\ downloaded_tasks = <<>>
    /\ journal = [lookups |-> {}, processed |-> <<>>]
    /\ cursor = 1
    /\ pc = "prepare"

\* one pass of the loops of _prepare_download_tasks
Prepare ==
    /\ pc = "prepare"
    /\ cursor <= Len(UpdateTargets)
    /\ LET t == UpdateTargets[cursor]
           r == prepare_download_task(t[1], t[2], t[3], tools, fs)
       IN /\ tools' = r.tools
          /\ download_tasks' = download_tasks \o r.task
          /\ journal' = [journal EXCEPT !.lookups =
                            IF r.lookup THEN @ \cup {t} ELSE @]
    /\ cursor' = cursor + 1
    /\ UNCHANGED <<args, result, fs, raised, fs_once, pc, workers, downloaded_tasks>>

\* _download_files_in_parallel submits every task to the pool
SubmitDownloads ==
    /\ pc = "prepare"
    /\ cursor > Len(UpdateTargets)
    /\ workers' = [i \in 1..Len(download_tasks) |-> [st |-> "queued", written |-> 0]]
    /\ pc' = "download"
    /\ UNCHANGED <<args, result, fs, raised, fs_once, tools, download_tasks,
                   downloaded_tasks, journal, cursor>>

\* download_task ends: as_completed hands its result to the main thread
Completed(i, success) ==
    /\ workers' = [workers EXCEPT ![i].st = IF success THEN "done" ELSE "failed"]
    /\ downloaded_tasks' = Append(downloaded_tasks, <<i, success>>)

\* requests.get or raise_for_status raises: nothing was opened
DownloadRefused(i) ==
    /\ pc = "download"
    /\ workers[i].st = "queued"
    /\ Completed(i, FALSE)
    /\ UNCHANGED <<args, result, fs, raised, fs_once, pc, tools, download_tasks,
                   journal, cursor>>

\* download_file opens its destination
DownloadOpen(i) ==
    /\ pc = "download"
    /\ workers[i].st = "queued"
    /\ fs' = OpenWb(fs, download_tasks[i].temp_path)
    /\ workers' = [workers EXCEPT ![i].st = "writing"]
    /\ UNCHANGED <<args, result, raised, fs_once, pc, tools, download_tasks,
                   downloaded_tasks, journal, cursor>>

\* one chunk of the response is written
DownloadChunk(i) ==
    /\ pc = "download"
    /\ workers[i].st = "writing"
    /\ workers[i].written < MaxChunks
    /\ fs' = WriteChunk(fs, download_tasks[i].temp_path, workers[i].written + 1,
                        download_tasks[i].asset_url)
    /\ workers' = [workers EXCEPT ![i].written = @ + 1]
    /\ UNCHANGED <<args, result, raised, fs_once, pc, tools, download_tasks,
                   downloaded_tasks, journal, cursor>>

\* iter_content raises before the last chunk: the file stays as it is
DownloadBroken(i) ==
    /\ pc = "download"
    /\ workers[i].st = "writing"
    /\ workers[i].written < MaxChunks
    /\ Completed(i, FALSE)
    /\ UNCHANGED <<args, result, fs, raised, fs_once, pc, tools, download_tasks,
                   journal, cursor>>

\* the response ends: download_file returns
DownloadDone(i) ==
    /\ pc = "download"
    /\ workers[i].st = "writing"
    /\ workers[i].written = MaxChunks
    /\ Completed(i, TRUE)
    /\ UNCHANGED <<args, result, fs, raised, fs_once, pc, tools, download_tasks,
                   journal, cursor>>

\* the pool is left when every worker has ended
JoinDownloads ==
    /\ pc = "download"
    /\ Len(downloaded_tasks) = Len(download_tasks)
    /\ pc' = "process"
    /\ cursor' = 1
    /\ UNCHANGED <<args, result, fs, raised, fs_once, tools, download_tasks,
                   workers, downloaded_tasks, journal>>

\* one pass of the loop of _process_downloaded_files
ProcessTask ==
    /\ pc = "process"
    /\ cursor <= Len(downloaded_tasks)
    /\ LET i == downloaded_tasks[cursor][1]
           r == process_downloaded_task(download_tasks[i], downloaded_tasks[cursor][2],
                                        tools, fs)
       IN /\ fs' = r.fs
          /\ journal' = [journal EXCEPT !.processed =
                            Append(@, [task |-> i, ok |-> r.ok,
                                       substituted |-> r.substituted,
                                       wrote |-> r.wrote])]
    /\ cursor' = cursor + 1
    /\ UNCHANGED <<args, result, raised, fs_once, pc, tools, download_tasks,
                   workers, downloaded_tasks>>

\* update_tools ends
Finish ==
    /\ pc = "process"
    /\ cursor > Len(downloaded_tasks)
    /\ fs' = make_binaries_executable(fs)
    /\ pc' = "finished"
    /\ UNCHANGED <<args, result, raised, fs_once, tools, download_tasks,
                   workers, downloaded_tasks, journal, cursor>>

UpdateNext ==
    \/ Prepare
    \/ SubmitDownloads
    \/ \E i \in DOMAIN workers : DownloadRefused(i)
    \/ \E i \in DOMAIN workers : DownloadOpen(i)
    \/ \E i \in DOMAIN workers : DownloadChunk(i)
    \/ \E i \in DOMAIN workers : DownloadBroken(i)
    \/ \E i \in DOMAIN workers : DownloadDone(i)
    \/ JoinDownloads
    \/ ProcessTask
    \/ Finish

SpecUpdate == UpdateInit /\ [][UpdateNext]_vars

----------------------------------------------------------------------------
(* Vocabulary of the properties: the call as the resolver sees it.         *)

\* the call reached the resolver of a readable tar or zip container
TarZipCall ==
    /\ pc # "start"
    /\ args.chooser_type \in ChooserTypes
    /\ args.data.comp = "none"
    /\ \/ args.data.fmt = "tar" /\ args.filename = F_tar
       \/ /\ args.data.fmt = "zip" /\ args.filename = F_zip
          /\ \A i \in 1..Len(args.data.members) : ~args.data.members[i].encrypted

FileInfos ==
    IF args.data.fmt = "tar" THEN TarFileInfos(args.data.members)
    ELSE ZipFileInfos(args.data.members)

DesiredName == IF args.tool = <<>> THEN args.filename ELSE args.tool

ChooserArg == IF args.chooser_arg = <<>> THEN DesiredName ELSE args.chooser_arg

Chosen(i) ==
    chooser_fn(args.chooser_type, ChooserArg,
               FileInfos[i].name, FileInfos[i].is_dir, FileInfos[i].mode)

\* the members, among the first k, that become candidates: the chooser
\* takes them and no directory taken before them is a prefix of their name
RECURSIVE SelectedUpTo(_)
SelectedUpTo(k) ==
    IF k = 0 THEN {}
    ELSE LET prev == SelectedUpTo(k - 1)
         IN IF \/ Chosen(k) = <<FALSE, FALSE>>
               \/ \E j \in prev : /\ FileInfos[j].is_dir
                                  /\ StartsWith(FileInfos[k].name, FileInfos[j].name)
            THEN prev ELSE prev \cup {k}

Selected == SelectedUpTo(Len(FileInfos))

SelectedDirect == { i \in Selected : Chosen(i)[1] }

Min(S) == CHOOSE x \in S : \A y \in S : x <= y

\* the indices of S in increasing order
RECURSIVE Ascending(_)
Ascending(S) == IF S = {} THEN <<>> ELSE <<Min(S)>> \o Ascending(S \ {Min(S)})

ArchiveNames(efs) == [i \in 1..Len(efs) |-> efs[i].archive_name]

\* the members the binary chooser must match directly, stated from the
\* member's name and mode
IsDirectBinary(i) ==
    /\ ~FileInfos[i].is_dir
    /\ BaseName(FileInfos[i].name) \in
          {ChooserArg, ChooserArg \o SufExe, ChooserArg \o SufAppimage}
    /\ is_exec(FileInfos[i].name, FileInfos[i].mode)

DirectBinary == { i \in 1..Len(FileInfos) : IsDirectBinary(i) }

----------------------------------------------------------------------------
(* C1: with the binary chooser and multiple = false, an archive holding    *)
(* exactly one direct match resolves to that member, whatever else the     *)
(* archive holds.                                                          *)
C1_SoleDirectMatchReturned ==
    (/\ TarZipCall
     /\ args.chooser_type = "binary"
     /\ ~args.multiple
     /\ Cardinality(DirectBinary) = 1)
    => /\ result.status = "returned"
       /\ \A i \in DirectBinary : result.file.archive_name = FileInfos[i].name

\* the case of C1 with a second executable member beside the direct match
C1_Witness ==
    /\ TarZipCall
    /\ args.chooser_type = "binary"
    /\ ~args.multiple
    /\ Cardinality(DirectBinary) = 1
    /\ Cardinality(Selected) = 2

(* C2: with multiple = false and N >= 2 candidates, extract_file raises    *)
(* ExtractionError "N candidates found" whose candidates are exactly the   *)
(* N candidates in the order of the archive.                               *)
C2_AmbiguousRaises ==
    (/\ TarZipCall
     /\ ~args.multiple
     /\ Cardinality(Selected) >= 2)
    => /\ result.status = "raised"
       /\ result.type = "ExtractionError"
       /\ result.message = Msg("candidates found", Cardinality(Selected), "")
       /\ ArchiveNames(result.candidates)
            = [k \in 1..Cardinality(Selected) |-> FileInfos[Ascending(Selected)[k]].name]

C2_Witness ==
    /\ TarZipCall
    /\ ~args.multiple
    /\ Cardinality(Selected) = 3
    /\ SelectedDirect # {}
    /\ result.status = "raised"

(* C3: when the chooser takes no member, extract_file raises               *)
(* ExtractionError "Target not found in archive" with no candidates, for   *)
(* both values of multiple.                                                *)
C3_NoCandidateNotFound ==
    (/\ TarZipCall
     /\ \A i \in 1..Len(FileInfos) : Chosen(i) = <<FALSE, FALSE>>)
    => /\ result.status = "raised"
       /\ result.type = "ExtractionError"
       /\ result.message = Msg("Target not found in archive", 0, "")
       /\ result.candidates = <<>>

C3_Witness ==
    /\ TarZipCall
    /\ args.multiple
    /\ Len(FileInfos) >= 2
    /\ \A i \in 1..Len(FileInfos) : Chosen(i) = <<FALSE, FALSE>>
    /\ result.status = "raised"

(* C4: with multiple = true and at least one candidate, extract_file       *)
(* returns the first direct match of the archive when there is one, and    *)
(* the first candidate otherwise; it never raises.                         *)
C4_MultipleReturnsFirst ==
    (/\ TarZipCall
     /\ args.multiple
     /\ Selected # {})
    => /\ result.status = "returned"
       /\ result.file.archive_name =
            FileInfos[IF SelectedDirect # {} THEN Min(SelectedDirect)
                      ELSE Min(Selected)].name

\* a direct match that is not the first candidate
C4_Witness ==
    /\ TarZipCall
    /\ args.multiple
    /\ SelectedDirect # {}
    /\ Min(SelectedDirect) > Min(Selected)
    /\ result.status = "returned"

C4_WitnessNoDirect ==
    /\ TarZipCall
    /\ args.multiple
    /\ SelectedDirect = {}
    /\ Cardinality(Selected) >= 2
    /\ result.status = "returned"

(* C5, as claimed: the name of the returned ExtractedFile is                *)
(* rename(archive member name, desired output name), for archive members   *)
(* and single files alike.                                                 *)
C5_NameIsRenameToDesired ==
    (pc # "start" /\ result.status = "returned")
    => result.file.name = rename(result.file.archive_name, DesiredName)

\* the renaming policy, stated from the suffixes
RenamedPerPolicy(name, desired) ==
    IF EndsWithAny(name, {SufDeb, SufOne, SufTxt}) THEN name
    ELSE IF EndsWith(name, SufAppimage) THEN SubSeq(name, 1, Len(name) - Len(SufAppimage))
    ELSE IF EndsWith(name, SufExe) THEN name
    ELSE desired

(* C5, amended: a single-file input is renamed to the desired output name  *)
(* by the policy; a member of a tar or zip archive keeps its own archive   *)
(* name (a directory's name given a trailing "/"), with only a .appimage   *)
(* suffix stripped, and is not replaced by the desired name.               *)
C5_NameOfReturnedFile ==
    (pc # "start" /\ result.status = "returned")
    => LET ef == result.file
           own == IF ef.is_dir /\ ~EndsWith(ef.archive_name, Slash)
                  THEN ef.archive_name \o Slash ELSE ef.archive_name
       IN IF ef.extract.fn = "_extract_single_file"
          THEN ef.name = RenamedPerPolicy(ef.archive_name, DesiredName)
          ELSE ef.name = RenamedPerPolicy(own, own)

\* an archive member other than the tool's name is returned under its own name
C5_Witness ==
    /\ TarZipCall
    /\ result.status = "returned"
    /\ args.chooser_type = "binary"
    /\ result.file.archive_name = N_ot
    /\ result.file.name = N_ot
    /\ DesiredName = N_tl

----------------------------------------------------------------------------
(* Vocabulary of the properties about extracting a directory candidate.    *)

DirExtracted ==
    /\ TarZipCall
    /\ pc \in {"once", "twice"}
    /\ result.status = "returned"
    /\ result.file.is_dir

MemberName(i) == FileInfos[i].name

MemberIsRegular(i) ==
    IF args.data.fmt = "tar" THEN args.data.members[i].type = "file"
    ELSE ~FileInfos[i].is_dir

\* where member i lies relative to the matched directory: the components
\* of its location after those of the directory, or <<>> when it does not
\* lie inside the directory
RelParts(i) ==
    LET dp == Resolve(PathParts(result.file.archive_name))
        mp == Resolve(PathParts(MemberName(i)))
    IN IF Len(mp) > Len(dp) /\ SubSeq(mp, 1, Len(dp)) = dp
       THEN SubSeq(mp, Len(dp) + 1, Len(mp)) ELSE <<>>

Under == { i \in 1..Len(FileInfos) : RelParts(i) # <<>> }

Created == DOMAIN fs \ DOMAIN InitialFs

HasExecBit(mode) == BitAnd(mode, ExecBits) # 0

(* C6: extracting a directory candidate writes every regular-file member   *)
(* inside the matched directory at its path relative to the directory,     *)
(* with the member's bytes, and creates nothing for members outside it.    *)
C6_DirectoryRoundTrip ==
    (DirExtracted /\ pc = "once")
    => /\ raised = <<"none">>
       /\ \A i \in Under :
            MemberIsRegular(i) =>
               /\ ToPath \o RelParts(i) \in DOMAIN fs
               /\ fs[ToPath \o RelParts(i)].kind = "file"
               /\ fs[ToPath \o RelParts(i)].data = args.data.members[i].data
       /\ \A p \in Created :
            \/ p = ToPath
            \/ \E i \in Under : \E k \in 1..Len(RelParts(i)) :
                  p = ToPath \o SubSeq(RelParts(i), 1, k)

(* C7: whatever names the archive stores, every file, directory and link   *)
(* created by extracting a directory candidate lies beneath the            *)
(* destination path.                                                       *)
C7_CreatedBeneathDestination ==
    DirExtracted => \A p \in Created : StartsWith(p, ToPath)

(* C8: a regular file written by extract carries an execute bit iff        *)
(* is_exec(name, archive mode) holds, and then carries all of 0o111 on top *)
(* of its archive mode; this for the selected member and for the files     *)
(* nested in a directory candidate.                                        *)
C8_ExecBitIffIsExec ==
    (/\ TarZipCall
     /\ pc = "once"
     /\ result.status = "returned"
     /\ raised = <<"none">>)
    => IF ~result.file.is_dir
       THEN LET exec == is_exec(result.file.archive_name, result.file.mode)
            IN /\ HasExecBit(fs[ToPath].mode) <=> exec
               /\ exec => fs[ToPath].mode = BitOr(result.file.mode, ExecBits)
       ELSE \A i \in Under :
               (MemberIsRegular(i) /\ ToPath \o RelParts(i) \in DOMAIN fs) =>
                  LET exec == is_exec(MemberName(i), FileInfos[i].mode)
                      written == fs[ToPath \o RelParts(i)].mode
                  IN /\ HasExecBit(written) <=> exec
                     /\ exec => written = BitOr(FileInfos[i].mode, ExecBits)

(* C9: a second extract at the same destination succeeds like the first    *)
(* and leaves what the first left.                                         *)
C9_ExtractTwiceIdempotent ==
    (pc = "twice" /\ raised[1] = "none")
    => /\ raised[2] = "none"
       /\ fs = fs_once

(* C10, as claimed: extract_file returns an ExtractedFile or raises        *)
(* ExtractionError; no other exception escapes it, an unknown chooser kind *)
(* included.                                                               *)
C10_OnlyExtractionErrorEscapes ==
    pc # "start"
    => \/ result.status = "returned"
       \/ result.status = "raised" /\ result.type = "ExtractionError"

(* C10, amended: with a known chooser kind extract_file returns an         *)
(* ExtractedFile or raises ExtractionError; an unknown chooser kind raises *)
(* ValueError "Unknown chooser type", whatever the file name and the data. *)
C10_FailuresByChooserKind ==
    pc # "start"
    => IF args.chooser_type \in {"binary", "literal", "glob"}
       THEN \/ result.status = "returned"
            \/ result.status = "raised" /\ result.type = "ExtractionError"
       ELSE /\ result.status = "raised"
            /\ result.type = "ValueError"
            /\ result.message = Msg("Unknown chooser type", 0, args.chooser_type)
            /\ result.candidates = <<>>

\* an unknown chooser kind met with data that would otherwise fail to decompress
C10_Witness ==
    /\ pc = "resolved"
    /\ args.chooser_type = "invalid"
    /\ args.filename = <<"a">> \o Ext_tar_gz
    /\ args.data.comp = "none"
    /\ result.status = "raised"
    /\ result.type = "ValueError"

----------------------------------------------------------------------------
(* Vocabulary of the properties: the format a file name stands for, read   *)
(* from its suffix alone, and what the bytes handed over really are.       *)

KnownChooser == args.chooser_type \in {"binary", "literal", "glob"}

\* <<container, decompressor>> by the first suffix of the list that fits
SuffixTable ==
    << <<Ext_tar_gz, "tar", "gzip">>, <<Ext_tgz, "tar", "gzip">>,
       <<Ext_tar_bz2, "tar", "bzip2">>, <<Ext_tbz, "tar", "bzip2">>,
       <<Ext_tar_xz, "tar", "xz">>, <<Ext_txz, "tar", "xz">>,
       <<Ext_tar, "tar", "none">>, <<Ext_zip, "zip", "none">>,
       <<Ext_gz, "single", "gzip">>, <<Ext_bz2, "single", "bzip2">>,
       <<Ext_xz, "single", "xz">> >>

FormatOf(filename) ==
    LET fits == { k \in 1..Len(SuffixTable) : EndsWith(filename, SuffixTable[k][1]) }
    IN IF fits = {} THEN [container |-> "single", decompressor |-> "none"]
       ELSE [container |-> SuffixTable[Min(fits)][2],
             decompressor |-> SuffixTable[Min(fits)][3]]

Fmt == FormatOf(args.filename)

\* the bytes decompress with the decompressor the name asks for
Decompresses == Fmt.decompressor = "none" \/ args.data.comp = Fmt.decompressor

\* what is left after that decompression is a tar / a zip container
ReadableTar ==
    /\ Decompresses
    /\ args.data.fmt = "tar"
    /\ (Fmt.decompressor = "none" => args.data.comp = "none")

ReadableZip == args.data.fmt = "zip" /\ args.data.comp = "none"

\* an entry ZipFile.read refuses with an exception that is not BadZipFile
ZipReadRefused ==
    /\ ReadableZip
    /\ \E i \in 1..Len(args.data.members) :
          /\ ~EndsWith(args.data.members[i].filename, Slash)
          /\ args.data.members[i].encrypted

RaisedExtractionError(text) ==
    /\ result.status = "raised"
    /\ result.type = "ExtractionError"
    /\ result.message.text = text
    /\ result.candidates = <<>>

----------------------------------------------------------------------------
(* C11: inside extract_file (chooser kind known) a corrupt tar container   *)
(* raises ExtractionError "Failed to extract tar", a corrupt zip "Failed   *)
(* to extract zip", any other exception met on the way is converted to     *)
(* ExtractionError "Failed to extract <filename>", an ExtractionError      *)
(* raised inside (failed decompression, not found, ambiguous) leaves with  *)
(* its own message, and every error but the ambiguity carries an empty     *)
(* candidates list.                                                        *)
C11_ErrorsWrapped ==
    (pc # "start" /\ KnownChooser)
    => /\ (Fmt.container = "tar" /\ Decompresses /\ ~ReadableTar)
             => RaisedExtractionError("Failed to extract tar")
       /\ (Fmt.container = "zip" /\ ~ReadableZip)
             => RaisedExtractionError("Failed to extract zip")
       /\ (Fmt.container = "zip" /\ ZipReadRefused)
             => /\ RaisedExtractionError("Failed to extract")
                /\ result.message.detail.filename = args.filename
       /\ (Fmt.container = "tar" /\ ~Decompresses)
             => /\ RaisedExtractionError("Failed to decompress with")
                /\ result.message.detail = Fmt.decompressor
       /\ (/\ \/ Fmt.container = "tar" /\ ReadableTar
              \/ Fmt.container = "zip" /\ ReadableZip /\ ~ZipReadRefused
           /\ result.status = "raised")
             => /\ result.type = "ExtractionError"
                /\ result.message.text \in {"Target not found in archive", "candidates found"}
                /\ result.message.text = "candidates found"
                      => /\ result.message.n = Len(result.candidates)
                         /\ result.message.n >= 2
       /\ (result.status = "raised" /\ result.message.text # "candidates found")
             => result.candidates = <<>>

\* a zip whose entry cannot be read: the RuntimeError leaves as ExtractionError
C11_Witness ==
    /\ pc = "resolved"
    /\ KnownChooser
    /\ Fmt.container = "zip"
    /\ ZipReadRefused
    /\ RaisedExtractionError("Failed to extract")

\* a gzip stream that holds no tar
C11_WitnessCorruptTar ==
    /\ pc = "resolved"
    /\ KnownChooser
    /\ Fmt = [container |-> "tar", decompressor |-> "gzip"]
    /\ args.data.comp = "gzip" /\ args.data.fmt = "raw"
    /\ RaisedExtractionError("Failed to extract tar")

----------------------------------------------------------------------------
(* Vocabulary of the properties about the pure functions.                  *)

FnApplied(fn) == pc = "applied" /\ args.fn = fn

\* one of the owner, group and other execute bits is set
AnyExecBit(mode) == \E b \in {1, 8, 64} : (mode \div b) % 2 = 1

\* the ordered rule for executables
OrderedRule(filename, mode) ==
    CASE EndsWith(filename, SufDeb) \/ EndsWith(filename, SufOne)
            \/ EndsWith(filename, SufTxt) -> FALSE
      [] OTHER ->
           CASE AnyExecBit(mode) -> TRUE
             [] OTHER ->
                  CASE EndsWith(filename, SufExe) \/ EndsWith(filename, SufAppimage) -> TRUE
                    [] OTHER -> \A i \in 1..Len(BaseName(filename)) :
                                    BaseName(filename)[i] # "."

----------------------------------------------------------------------------
(* C12: is_exec(filename, mode) is the ordered rule - false for a name     *)
(* ending in .deb, .1 or .txt; otherwise true if the mode has one of the   *)
(* bits 0o111; otherwise true for a name ending in .exe or .appimage;      *)
(* otherwise true iff the base filename holds no "." - for every filename  *)
(* and mode.                                                               *)
C12_IsExecOrderedRule ==
    FnApplied("is_exec") => result.value = OrderedRule(args.name, args.mode)

\* a denylisted name that carries execute bits
C12_Witness ==
    /\ FnApplied("is_exec")
    /\ args.name = N_txt
    /\ args.mode = \o755
    /\ result.value = FALSE

\* the last rule decides: a dot in a directory name does not count
C12_WitnessNoDot ==
    /\ FnApplied("is_exec")
    /\ args.name = N_d_x_tl
    /\ args.mode = \o644
    /\ result.value = TRUE

----------------------------------------------------------------------------
(* C13: binary_chooser answers (false, false) for every directory; for a   *)
(* member that is no directory it reports a possible match iff             *)
(* is_exec(name, mode), and a direct match iff it reports a possible match *)
(* and the base name is tool, tool.exe or tool.appimage; a direct match is *)
(* then always a possible match too.                                       *)
C13_BinaryChooser ==
    FnApplied("binary_chooser")
    => LET direct == result.value[1]
           possible == result.value[2]
           named == \/ BaseName(args.name) = args.tool
                    \/ BaseName(args.name) = args.tool \o SufExe
                    \/ BaseName(args.name) = args.tool \o SufAppimage
       IN /\ args.is_dir => (~direct /\ ~possible)
          /\ ~args.is_dir => /\ possible <=> is_exec(args.name, args.mode)
                             /\ direct <=> (possible /\ named)
          /\ direct => possible

\* the tool's own name on a member that is not executable: possible
\* fails, and the direct match with it
C13_Witness ==
    /\ FnApplied("binary_chooser")
    /\ ~args.is_dir
    /\ BaseName(args.name) = args.tool
    /\ ~is_exec(args.name, args.mode)
    /\ result.value = <<FALSE, FALSE>>

\* a direct match below a directory
C13_WitnessDirect ==
    /\ FnApplied("binary_chooser")
    /\ ~args.is_dir
    /\ args.name = N_d_tl \o SufAppimage
    /\ args.tool = N_tl
    /\ result.value = <<TRUE, TRUE>>

----------------------------------------------------------------------------
(* C14: glob_chooser answers (true, true) for every member when the        *)
(* pattern is exactly "*" or "/"; for every other pattern the direct match *)
(* is false and the possible match holds iff the pattern, one trailing "/" *)
(* removed, glob-matches the member's base name or its full name, one      *)
(* trailing "/" removed.                                                   *)

\* s without one trailing "/"
Untrailed(s) == IF Len(s) > 0 /\ s[Len(s)] = "/" THEN SubSeq(s, 1, Len(s) - 1) ELSE s

C14_GlobChooser ==
    FnApplied("glob_chooser")
    => IF args.pattern = <<"*">> \/ args.pattern = <<"/">>
       THEN result.value = <<TRUE, TRUE>>
       ELSE /\ result.value[1] = FALSE
            /\ result.value[2] <=>
                  \/ FnMatch(BaseName(args.name), Untrailed(args.pattern))
                  \/ FnMatch(Untrailed(args.name), Untrailed(args.pattern))

\* a directory pattern written with its "/" takes the directory entry
C14_Witness ==
    /\ FnApplied("glob_chooser")
    /\ args.pattern = <<"a", "/">>
    /\ args.name \in {<<"a">>, <<"a", "/">>}
    /\ result.value = <<FALSE, TRUE>>

\* the pattern "*" takes everything as a direct match
C14_WitnessAll ==
    /\ FnApplied("glob_chooser")
    /\ args.pattern = <<"*">>
    /\ args.name = N_txt
    /\ result.value = <<TRUE, TRUE>>

----------------------------------------------------------------------------
(* C15: literal_file_chooser never reports a direct match; it reports a    *)
(* possible match iff the member's base filename equals the target's base  *)
(* filename and the member's full path ends with the target path, so that  *)
(* a longer literal path (a/tl) selects only the same-named file in that   *)
(* directory and not the same-named files of other directories.            *)

\* the components of the target are the last components of the member's path
InThatDirectory(name, target) ==
    LET n == PathParts(name)
        t == PathParts(target)
    IN /\ Len(t) <= Len(n)
       /\ \A k \in 1..Len(t) : n[Len(n) - Len(t) + k] = t[k]

C15_LiteralChooserByDirectory ==
    FnApplied("literal_file_chooser")
    => /\ result.value[1] = FALSE
       /\ result.value[2] <=> /\ BaseName(args.name) = BaseName(args.filename)
                              /\ EndsWith(args.name, args.filename)
       /\ result.value[2] => InThatDirectory(args.name, args.filename)

\* the member ba/tl answers to the literal path a/tl
C15_Witness ==
    /\ FnApplied("literal_file_chooser")
    /\ args.name = N_ba_tl
    /\ args.filename = N_a_tl
    /\ result.value = <<FALSE, TRUE>>

----------------------------------------------------------------------------
(* Vocabulary: the result of an extract_file call applied on its own.      *)

ExtractFileApplied == FnApplied("extract_file") /\ KnownChooser

FileResult == result.value

ReturnedSingle(decompressor) ==
    /\ FileResult.status = "returned"
    /\ FileResult.file.extract.fn = "_extract_single_file"
    /\ FileResult.file.extract.decompressor = decompressor

RaisedWith(text) ==
    /\ FileResult.status = "raised"
    /\ FileResult.type = "ExtractionError"
    /\ FileResult.message.text = text

(* C16, as claimed: content that begins with the gzip magic bytes is       *)
(* handled by extract_file as gzip-compressed also when the suffix of the  *)
(* file name is missing or names another format.                           *)
C16_GzipMagicWins ==
    (ExtractFileApplied /\ args.data.comp = "gzip" /\ Fmt.decompressor # "gzip")
    => /\ FileResult.status = "returned"
             => \/ FileResult.file.extract.fn # "_extract_single_file"
                \/ ReturnedSingle("gzip")
       /\ ~RaisedWith("Failed to decompress with")
       /\ args.data.fmt = "tar"
             => ~RaisedWith("Failed to extract tar") /\ ~RaisedWith("Failed to extract zip")

(* C16, amended: extract_file decides the format, gzip included, by the    *)
(* suffix of the file name alone and never looks at the first bytes:       *)
(* gzip content under a name without a gzip suffix is written as it is     *)
(* (no suffix), handed to the decompressor or the container reader the     *)
(* suffix names, and fails there.  The gzip magic bytes win over the       *)
(* suffix in download.extract_archive only.                                *)
C16_SuffixAloneDecides ==
    /\ (ExtractFileApplied /\ args.data.comp = "gzip")
       => /\ Fmt.container = "single" => ReturnedSingle(Fmt.decompressor)
          /\ (Fmt.container = "tar" /\ Fmt.decompressor \in {"bzip2", "xz"})
                => RaisedWith("Failed to decompress with")
          /\ (Fmt.container = "tar" /\ Fmt.decompressor = "none")
                => RaisedWith("Failed to extract tar")
          /\ Fmt.container = "zip" => RaisedWith("Failed to extract zip")
    /\ (FnApplied("extract_archive") /\ args.data.comp = "gzip")
       => result.value = "r:gz"

\* gzip bytes under a name without a suffix: taken as a plain file
C16_Witness ==
    /\ ExtractFileApplied
    /\ args.filename = N_tl
    /\ args.data.comp = "gzip"
    /\ ReturnedSingle("none")

\* the same bytes and name in extract_archive: opened as gzip
C16_WitnessArchive ==
    /\ FnApplied("extract_archive")
    /\ args.archive_path = N_tl
    /\ args.data.comp = "gzip"
    /\ result.value = "r:gz"

----------------------------------------------------------------------------
(* C17: extract_file picks the format from the suffix of the file name     *)
(* with the precedence .tar.gz/.tgz, .tar.bz2/.tbz, .tar.xz/.txz, .tar,    *)
(* .zip, .gz, .bz2, .xz; a name with none of these suffixes is taken as a  *)
(* plain file and never rejected, and a name ending in .gz is handled as   *)
(* gzip whatever the content begins with.                                  *)

\* the call went to the resolver of a container, which answered
Resolved ==
    \/ /\ FileResult.status = "returned"
       /\ FileResult.file.extract.fn # "_extract_single_file"
    \/ RaisedWith("Target not found in archive")
    \/ RaisedWith("candidates found")

C17_FormatBySuffix ==
    ExtractFileApplied
    => /\ Fmt.container = "single" => ReturnedSingle(Fmt.decompressor)
       /\ Fmt.container = "tar"
             => IF ~Decompresses
                THEN /\ RaisedWith("Failed to decompress with")
                     /\ FileResult.message.detail = Fmt.decompressor
                ELSE IF ~ReadableTar THEN RaisedWith("Failed to extract tar")
                ELSE Resolved
       /\ Fmt.container = "zip"
             => IF ~ReadableZip THEN RaisedWith("Failed to extract zip")
                ELSE IF ZipReadRefused THEN RaisedWith("Failed to extract")
                ELSE Resolved

\* a name ending in .gz over bytes that are no gzip stream
C17_Witness ==
    /\ ExtractFileApplied
    /\ args.filename = N_tl \o Ext_gz
    /\ args.data.comp = "none"
    /\ ReturnedSingle("gzip")

\* .tar.gz comes before .gz
C17_WitnessTarGz ==
    /\ ExtractFileApplied
    /\ args.filename = <<"a">> \o Ext_tar_gz
    /\ args.data.comp = "gzip" /\ args.data.fmt = "tar"
    /\ Resolved

\* no known suffix: a plain file
C17_WitnessPlain ==
    /\ ExtractFileApplied
    /\ args.filename = <<"t", "l", "-", "1", ".", "2">>
    /\ args.data.fmt = "zip"
    /\ ReturnedSingle("none")

----------------------------------------------------------------------------
(* C18: for a single-file input (.gz, .bz2 or .xz without a tar, or a      *)
(* plain file) extract_file returns an ExtractedFile with                  *)
(* name = rename(filename, tool) and archive_name = filename, and extract  *)
(* writes exactly the decompressed bytes (the input bytes of a plain file) *)
(* with mode 0o666, plus 0o111 iff is_exec(renamed name, 0o666).           *)

SingleFileCall ==
    /\ pc # "start"
    /\ "fn" \notin DOMAIN args
    /\ KnownChooser
    /\ Fmt.container = "single"

\* the bytes behind the compression layer the suffix names
DecompressedBytes ==
    IF Fmt.decompressor = "none" THEN BytesOf(args.data)
    ELSE BytesOf([args.data EXCEPT !.comp = "none"])

SingleMode == IF is_exec(rename(args.filename, DesiredName), \o666) THEN \o777 ELSE \o666

C18_SingleFile ==
    SingleFileCall
    => /\ result.status = "returned"
       /\ result.file.name = rename(args.filename, DesiredName)
       /\ result.file.archive_name = args.filename
       /\ result.file.mode = SingleMode
       /\ ~result.file.is_dir
       /\ (pc \in {"once", "twice"} /\ Decompresses)
             => /\ raised[1] = "none"
                /\ DOMAIN fs_once = DOMAIN InitialFs \cup {ToPath}
                /\ fs_once[ToPath] = FileNode(DecompressedBytes, SingleMode)

\* tl.gz, a gzip stream: written decompressed and executable under the name tl
C18_Witness ==
    /\ SingleFileCall
    /\ pc = "once"
    /\ args.filename = N_tl \o Ext_gz
    /\ args.tool = N_tl
    /\ args.data.comp = "gzip" /\ args.data.fmt = "raw"
    /\ result.file.name = N_tl
    /\ fs_once[ToPath] = FileNode(1, \o777)

\* a plain n.txt: written as it is, not executable
C18_WitnessPlain ==
    /\ SingleFileCall
    /\ pc = "once"
    /\ args.filename = N_txt
    /\ args.data.comp = "gzip" /\ args.data.fmt = "raw"
    /\ result.file.name = N_txt
    /\ fs_once[ToPath] = FileNode(101, \o666)

----------------------------------------------------------------------------
(* C19: for every zip entry the member mode used for choosing and for      *)
(* writing is the permission bits held in the upper 16 bits of the entry's *)
(* external attributes when they are present, and 0o644 for every entry    *)
(* that carries none there, whatever its low attribute bits are.           *)

ZipEntryNamed(name) ==
    CHOOSE e \in { args.data.members[i] : i \in 1..Len(args.data.members) } :
        e.filename = name

\* the nine permission bits of the upper half, or 0o644 when that half is empty
PermissionBits(external_attr) ==
    IF external_attr.hi # 0 THEN external_attr.hi % 512 ELSE \o644

ZipFileReturned ==
    /\ TarZipCall
    /\ args.data.fmt = "zip"
    /\ result.status = "returned"
    /\ ~result.file.is_dir

C19_ZipModeFromUpperBits ==
    ZipFileReturned
    => LET m == PermissionBits(ZipEntryNamed(result.file.archive_name).external_attr)
       IN /\ result.file.mode = m
          /\ (pc \in {"once", "twice"} /\ raised[1] = "none")
                => fs_once[ToPath].mode =
                      IF is_exec(result.file.archive_name, m) THEN BitOr(m, ExecBits) ELSE m

\* an entry with the MS-DOS archive bit and no Unix mode is written with mode 0
C19_Witness ==
    /\ ZipFileReturned
    /\ pc = "once"
    /\ result.file.archive_name = N_dos
    /\ ZipEntryNamed(N_dos).external_attr = ExternalAttr(0, 32)
    /\ fs_once[ToPath].mode = 0

----------------------------------------------------------------------------
(* C20: the mode field of every ExtractedFile that extract_file returns    *)
(* has the execute bits set whenever is_exec(member name, archive mode)    *)
(* holds, for the members of tar and zip archives as for single-file       *)
(* inputs, and the field equals the mode that extract then applies to the  *)
(* file it writes.                                                         *)

FileReturned ==
    /\ pc # "start"
    /\ KnownChooser
    /\ result.status = "returned"
    /\ ~result.file.is_dir

\* the archive's mode of the member that was returned
ArchiveMode ==
    LET i == CHOOSE k \in 1..Len(FileInfos) : FileInfos[k].name = result.file.archive_name
    IN FileInfos[i].mode

C20_ModeFieldIsAppliedMode ==
    FileReturned
    => /\ TarZipCall
             => (is_exec(result.file.archive_name, ArchiveMode)
                    => BitAnd(result.file.mode, ExecBits) = ExecBits)
       /\ Fmt.container = "single"
             => (is_exec(result.file.name, \o666)
                    => BitAnd(result.file.mode, ExecBits) = ExecBits)
       /\ (pc \in {"once", "twice"} /\ raised[1] = "none")
             => fs_once[ToPath].mode = result.file.mode

\* an extensionless member of mode 0o644: the field says 0o644, the file is
\* written 0o755
C20_Witness ==
    /\ FileReturned
    /\ TarZipCall
    /\ pc = "once"
    /\ result.file.archive_name = N_ot
    /\ result.file.mode = \o644
    /\ fs_once[ToPath].mode = \o755

----------------------------------------------------------------------------
(* Vocabulary of the properties about the resolver's loop: what the loop   *)
(* over the members has collected when it ends.                            *)

AllFileData ==
    IF args.data.fmt = "tar" THEN TarAllFileData(args.data.members)
    ELSE ZipAllFileData(args.data.members)

\* the loop's state after the last member of the listing file_infos
ScanOf(file_infos) ==
    Scanned(file_infos, args.data.fmt, args.chooser_type, ChooserArg,
            AllFileData, args.data)

Scan == ScanOf(FileInfos)

Range(s) == { s[i] : i \in 1..Len(s) }

CandidateNamesOf(file_infos) == Range(ArchiveNames(ScanOf(file_infos).candidates))

CandidateNames == CandidateNamesOf(FileInfos)

DirectNames == Range(ArchiveNames(Scan.direct_candidates))

\* the directories among the candidates
CandidateDirs ==
    { FileInfos[j].name : j \in { i \in 1..Len(FileInfos) :
          FileInfos[i].is_dir /\ FileInfos[i].name \in CandidateNames } }

\* member k comes after a directory that was taken as a candidate and its
\* name starts with that directory's name
AfterClaimed(k) ==
    \E j \in 1..(k - 1) :
        /\ FileInfos[j].is_dir
        /\ FileInfos[j].name \in CandidateNames
        /\ StartsWith(FileInfos[k].name, FileInfos[j].name)

\* name lies inside directory dir: the path components of dir lead those
\* of name
Inside(name, dir) ==
    LET n == PathParts(name)
        d == PathParts(dir)
    IN Len(n) > Len(d) /\ SubSeq(n, 1, Len(d)) = d

(* C23: a directory taken as a candidate joins the claimed prefixes, and   *)
(* every later member whose name starts with a claimed prefix is skipped:  *)
(* the chooser is not applied to it and it is neither a candidate nor a    *)
(* direct candidate; what extract_file reports comes from those            *)
(* candidates.                                                             *)
C23_ClaimedPrefixSkips ==
    TarZipCall
    => /\ CandidateDirs \subseteq Range(Scan.dirs)
       /\ \A k \in 1..Len(FileInfos) :
             AfterClaimed(k)
             => /\ FileInfos[k].name \in Range(Scan.skipped)
                /\ FileInfos[k].name \notin CandidateNames
                /\ FileInfos[k].name \notin DirectNames
       /\ result.status = "returned"
             => result.file.archive_name \in CandidateNames
       /\ (result.status = "raised" /\ result.candidates # <<>>)
             => ArchiveNames(result.candidates) = ArchiveNames(Scan.candidates)

\* a directory, then a member the chooser would take whose name starts with
\* the directory's name: the member is skipped and the
\* directory alone is returned
C23_Witness ==
    /\ TarZipCall
    /\ \E k \in 1..Len(FileInfos) :
          /\ AfterClaimed(k)
          /\ Chosen(k) # <<FALSE, FALSE>>
          /\ FileInfos[k].name \in Range(Scan.skipped)
    /\ result.status = "returned"
    /\ result.file.is_dir
    /\ Len(Scan.candidates) = 1

----------------------------------------------------------------------------
(* C24: when the selected candidate is a symlink or hardlink member of a   *)
(* tar, extract puts at the destination the link itself or the content of  *)
(* the member the link points to.                                          *)

\* the tar member extract_file returned
SelectedMember ==
    CHOOSE m \in Range(args.data.members) : m.name = result.file.archive_name

LinkSelected ==
    /\ TarZipCall
    /\ args.data.fmt = "tar"
    /\ pc = "once"
    /\ result.status = "returned"
    /\ ~result.file.is_dir
    /\ SelectedMember.type \in {"sym", "lnk"}

C24_LinkMaterialized ==
    LinkSelected
    => /\ raised = <<"none">>
       /\ ToPath \in DOMAIN fs
       /\ \/ /\ fs[ToPath].kind = "symlink"
             /\ fs[ToPath].target = SelectedMember.linkname
          \/ /\ fs[ToPath].kind = "file"
             /\ \E t \in Range(args.data.members) :
                   /\ t.type = "file"
                   /\ PathParts(t.name) = PathParts(SelectedMember.linkname)
                   /\ fs[ToPath].data = t.data

C24_Witness == LinkSelected /\ raised = <<"none">>

----------------------------------------------------------------------------
(* C25: the claimed-prefix rule skips a member only if it lies inside a    *)
(* directory that was taken as a candidate, by whole path components; a    *)
(* member whose name only begins with the letters of such a directory's    *)
(* name is passed to the chooser.                                          *)
C25_SkippedOnlyInsideSelectedDirectory ==
    TarZipCall
    => \A k \in 1..Len(FileInfos) :
          FileInfos[k].name \in Range(Scan.skipped)
          => \E d \in CandidateDirs : Inside(FileInfos[k].name, d)

C25_Witness ==
    /\ TarZipCall
    /\ \E k \in 1..Len(FileInfos) :
          /\ FileInfos[k].name \in Range(Scan.skipped)
          /\ \E d \in CandidateDirs : Inside(FileInfos[k].name, d)

----------------------------------------------------------------------------
(* C26: no candidate lies inside a directory that is itself a candidate,   *)
(* and the set of candidates is the same for every order in which the      *)
(* archive lists the same members.                                         *)
C26_CandidatesOrderIndependent ==
    TarZipCall
    => /\ \A c \in CandidateNames : \A d \in CandidateDirs : ~Inside(c, d)
       /\ \A perm \in Permutations(1..Len(FileInfos)) :
             CandidateNamesOf([i \in 1..Len(FileInfos) |-> FileInfos[perm[i]]])
                = CandidateNames

C26_Witness ==
    /\ TarZipCall
    /\ CandidateDirs # {}
    /\ \E k \in 1..Len(FileInfos) : \E d \in CandidateDirs : Inside(FileInfos[k].name, d)

----------------------------------------------------------------------------
(* C30: when the bytes of a single compressed file do not decompress with  *)
(* the decompressor its suffix names, extract raises ExtractionError and   *)
(* leaves the filesystem as it was: no parent directory is created and the *)
(* destination file is neither created nor truncated nor given a mode.     *)

\* extract was run on a single-file result whose stream is malformed
DecompressionFails ==
    /\ FnApplied("extract_single_file")
    /\ args.decompressor # "none"
    /\ args.data.comp # args.decompressor

C30_FailedDecompressionWritesNothing ==
    DecompressionFails
    => /\ raised = <<"ExtractionError">>
       /\ fs = fs_once

\* the parent directory is missing and stays missing
C30_Witness ==
    /\ DecompressionFails
    /\ <<W>> \notin DOMAIN fs_once
    /\ raised = <<"ExtractionError">>

\* the destination exists and keeps its bytes and mode
C30_WitnessExisting ==
    /\ DecompressionFails
    /\ ToPath \in DOMAIN fs_once
    /\ fs[ToPath] = FileNode(9, \o600)

\* a well-formed stream is written: the parent is created
C30_WitnessWritten ==
    /\ FnApplied("extract_single_file")
    /\ args.data.comp = args.decompressor
    /\ <<W>> \notin DOMAIN fs_once
    /\ raised = <<"none">>
    /\ ToPath \in DOMAIN fs

----------------------------------------------------------------------------
(* Vocabulary of the properties about an update run.                       *)

Tasks == 1..Len(download_tasks)

\* the tasks prepared for the triple t = <<tool, platform, arch>>
TasksOf(t) ==
    { i \in Tasks : <<download_tasks[i].tool_name, download_tasks[i].platform,
                      download_tasks[i].arch>> = t }

\* every binary of t's tool existed in t's bin directory when the run began
InstalledAtStart(t) ==
    all_exist(fs_once, destination_dir(t[2], t[3]), binary_names_of(tools[t[1]], t[1]))

\* the configuration names an asset pattern for t
HasPattern(t) == get_asset_pattern(tools[t[1]], t[2], t[3]) # <<>>

\* the records of the processing of task i, and the files it wrote
ProcessedOf(i) ==
    { k \in 1..Len(journal.processed) : journal.processed[k].task = i }

Wrote(i) == UNION { journal.processed[k].wrote : k \in ProcessedOf(i) }

BinaryNames(i) ==
    Range(binary_names_of(tools[download_tasks[i].tool_name], download_tasks[i].tool_name))

SamePlatformArch(i, j) ==
    /\ download_tasks[i].platform = download_tasks[j].platform
    /\ download_tasks[i].arch = download_tasks[j].arch

\* neither directory lies in the other
Disjoint(d, e) == ~StartsWith(d, e) /\ ~StartsWith(e, d)

(* C21: with --force a tool whose binaries all exist is looked up and      *)
(* prepared again; without --force it is skipped and no release lookup is  *)
(* made for it.                                                            *)
C21_ForceDownloadsAgain ==
    pc = "finished"
    => \A k \in 1..Len(UpdateTargets) :
          LET t == UpdateTargets[k]
          IN (InstalledAtStart(t) /\ HasPattern(t))
             => IF args.force
                THEN t \in journal.lookups /\ TasksOf(t) # {}
                ELSE t \notin journal.lookups /\ TasksOf(t) = {}

\* without --force an installed tool is skipped while another is downloaded
C21_Witness ==
    /\ pc = "finished"
    /\ ~args.force
    /\ \E k \in 1..Len(UpdateTargets) :
          /\ InstalledAtStart(UpdateTargets[k])
          /\ UpdateTargets[k] \notin journal.lookups
    /\ journal.lookups # {}

----------------------------------------------------------------------------
(* C22: the destination directories of two distinct tasks are disjoint,    *)
(* so two tasks never write the same destination file.                     *)
C22_DisjointDestinations ==
    \A i, j \in Tasks :
        i # j => /\ Disjoint(download_tasks[i].destination_dir,
                             download_tasks[j].destination_dir)
                 /\ Wrote(i) \cap Wrote(j) = {}

(* C22, as the code has it: a task's destination directory is              *)
(* tools_dir/platform/arch/bin, shared by the tasks of one platform and    *)
(* architecture and disjoint from the directory of any other pair; a task  *)
(* writes only its tool's binary names in that directory, so two tasks     *)
(* write the same file only if they have the same platform and             *)
(* architecture and a binary name in common.                               *)
C22_DestinationsPerPlatformArch ==
    \A i, j \in Tasks :
        /\ download_tasks[i].destination_dir =
              destination_dir(download_tasks[i].platform, download_tasks[i].arch)
        /\ Wrote(i) \subseteq { Append(download_tasks[i].destination_dir, <<b>>) :
                                  b \in BinaryNames(i) }
        /\ i # j =>
              /\ SamePlatformArch(i, j)
                    <=> download_tasks[i].destination_dir = download_tasks[j].destination_dir
              /\ ~SamePlatformArch(i, j)
                    => Disjoint(download_tasks[i].destination_dir,
                                download_tasks[j].destination_dir)
              /\ Wrote(i) \cap Wrote(j) # {}
                    => /\ SamePlatformArch(i, j)
                       /\ BinaryNames(i) \cap BinaryNames(j) # {}

\* two tools installed into the one bin directory of linux/amd64, and a
\* third task that went to another directory
C22_Witness ==
    /\ pc = "finished"
    /\ \E i, j \in Tasks :
          /\ i # j
          /\ download_tasks[i].destination_dir = download_tasks[j].destination_dir
          /\ Wrote(i) # {} /\ Wrote(j) # {}
          /\ Wrote(i) \cap Wrote(j) = {}

\* two tools configured with the same binary name write the same file
C22_WitnessSameFile ==
    \E i, j \in Tasks : i # j /\ Wrote(i) \cap Wrote(j) # {}

----------------------------------------------------------------------------
(* C27: the {arch} and {version} substituted into a task's binary_path     *)
(* when it is processed are those of the task's own architecture and       *)
(* release, also when several architectures of the tool were prepared      *)
(* before.                                                                 *)

\* binary_path with the values computed for task i itself
OwnBinaryPath(i) ==
    LET tool_config == tools[download_tasks[i].tool_name]
        release == get_latest_release(tool_config["repo"])
        own == DictSet(DictSet(tool_config, "version", LStrip(release.tag_name, "v")),
                       "arch", tool_arch_of(download_tasks[i].arch, tool_config))
    IN replace_variables_in_path(tool_config["binary_path"], own)

C27_OwnArchSubstituted ==
    \A k \in 1..Len(journal.processed) :
        journal.processed[k].substituted # <<>>
        => journal.processed[k].substituted = OwnBinaryPath(journal.processed[k].task)

\* two architectures of mytool were prepared; the task prepared last is
\* processed with its own values
C27_Witness ==
    /\ Cardinality({ i \in Tasks : download_tasks[i].tool_name = "mytool" }) = 2
    /\ \E k \in 1..Len(journal.processed) :
          /\ journal.processed[k].substituted # <<>>
          /\ journal.processed[k].substituted = OwnBinaryPath(journal.processed[k].task)
          /\ journal.processed[k].ok

----------------------------------------------------------------------------
(* C28: no two download tasks of one update run have the same temp_path.   *)
C28_DistinctTempPaths ==
    \A i, j \in Tasks :
        i # j => download_tasks[i].temp_path # download_tasks[j].temp_path

C28_Witness ==
    /\ pc = "download"
    /\ Len(download_tasks) = 3
    /\ \A i, j \in Tasks :
          i # j => download_tasks[i].temp_path # download_tasks[j].temp_path
    /\ \E i, j \in Tasks : i # j /\ workers[i].st = "writing" /\ workers[j].st = "writing"

----------------------------------------------------------------------------
(* C29: when the update run has finished, the temp_path of every prepared  *)
(* task is gone, whether its download succeeded, broke off after part of   *)
(* the file was written, or its processing failed.                         *)
C29_TempFilesRemoved ==
    pc = "finished" => \A i \in Tasks : download_tasks[i].temp_path \notin DOMAIN fs

\* a task downloaded and installed, another whose processing failed: both
\* temporary files are gone
C29_Witness ==
    /\ pc = "finished"
    /\ \A i \in Tasks : download_tasks[i].temp_path \notin DOMAIN fs
    /\ \E k, l \in 1..Len(journal.processed) :
          /\ journal.processed[k].ok
          /\ ~journal.processed[l].ok
          /\ downloaded_tasks[l][2]

====
